---- MODULE Spec2Model ----
(***************************************************************************)
(* Webhook relay: status-update handling (_log_statuses_and_persist), the  *)
(* asynchronous outbound dispatcher (_dispatch_actions_async._worker) and  *)
(* the message store they share (messages, processed_ids).                 *)
(*                                                                         *)
(* One request thread per inbound webhook call (receive), one worker       *)
(* thread per call (threading.Thread in _dispatch_actions_async).  Every   *)
(* SQL statement and every broadcaster.publish call is one atomic step;    *)
(* the Python between two of them is folded into the step that follows.    *)
(*                                                                         *)
(* The action list and the status list of a call are fixed when the call   *)
(* arrives; only their lengths are drawn at that point.  Each element is   *)
(* read by exactly one thread, once, when its loop reaches it, and is      *)
(* drawn there.                                                            *)
(***************************************************************************)
EXTENDS Integers, Sequences, FiniteSets, Bags, TLC

\* ---------------------------------------------------------------- bounds
NReq        == 2    \* inbound webhook calls (and so dispatch runs)
MaxActions  == 2    \* longest action list handed to one dispatch run
MaxStatuses == 2    \* longest "statuses" list of one webhook body
MaxDelay    == 1    \* largest delay, in seconds (own or configured default)
NSubs       == 2    \* realtime subscribers (one queue each)
NPubs       == 2    \* threads that call broadcaster.publish
MaxPub      == 3    \* publish calls made in all
MaxQueue    == 2    \* capacity of a subscriber queue (stands for maxsize=1000)
MaxBeats    == 2    \* heartbeats after which the subscribers' clock stops
SubMs       == 2    \* clock readings per millisecond
MaxJumps    == 2    \* times the session clock moves on
MaxCreated  == 3    \* sessions created in all
MaxInbound  == 3    \* inbound messages handled in all
MaxRows     == 4    \* rows of the message table
MaxEvents   == 3    \* events in one webhook body
MaxBodies   == 2    \* webhook bodies of messages handled
MaxSends    == 2    \* POST /send requests answered

Reqs      == 1..NReq
None      == "none"
ExtIds    == {"wamid.X"}
StatusVals == {"delivered", "read"}

\* A "statuses" entry: st.get("id"), st.get("status"); either may be missing.
StatusPool ==
    [id : ExtIds \cup {None}, status : StatusVals \cup {None}]

\* An outbound action {to, text?|template?, delay?}.  dkind tells whether
\* "delay" is absent (a.get("delay") is None), an integer, or a value int()
\* rejects.  Text and template actions take the same path (send_text and
\* send_template both end in wa_post), so the content is left out.
ActionPool ==
    {[to |-> "", dkind |-> "none", delay |-> 0]}
    \cup [to : {"5561"}, dkind : {"none", "bad"}, delay : {0}]
    \cup [to : {"5561"}, dkind : {"int"}, delay : 0..MaxDelay]

NoAction == [to |-> "", dkind |-> "none", delay |-> 0]
NoStatus == [id |-> None, status |-> None]
NoRes    == [ok |-> FALSE, external_msg_id |-> None, status |-> None]

VARIABLES
    config,       \* app.config: DRY_RUN, OUTGOING_DELAY_SECONDS
    messages,     \* table messages, in insertion order
    processed,    \* table processed_ids (the external_msg_id column)
    published,    \* bag of the payloads handed to broadcaster.publish
    rpc,          \* request thread: position in receive()
    nSts,         \* request thread: len(statuses) of its body
    sidx,         \* request thread: index of the status entry being handled
    st,           \* request thread: the status entry being handled
    wpc,          \* worker thread: position in _worker()
    nActs,        \* worker thread: len(actions)
    idx,          \* worker thread: enumerate index
    cur,          \* worker thread: the action a
    remaining,    \* worker thread: seconds of time.sleep(delay_s) still to run
    slept,        \* worker thread: seconds slept in this iteration
    res,          \* worker thread: what the send returned
    hist,         \* per run: outcome of each finished iteration, in order
    updateCalls,  \* per external id: calls of update_message_status_by_external_id
    handled       \* external ids for which a status entry with a status was handled to the end

\* the broadcaster of app/realtime.py, its subscribers and its publishers
VARIABLES
    subs,         \* _Broadcaster._subs: channel -> list of queues (a queue is
                  \*   named by the subscriber that created it)
    queue,        \* per subscriber: the items waiting in its queue.Queue
    gpc,          \* per subscriber: position of its subscribe() generator
    chan,         \* per subscriber: the channel its generator was given
    got,          \* per subscriber: the items its consumer was handed, in order
    ppc,          \* per publisher: position in publish()
    pend,         \* per publisher: queues of its snapshot not yet put to
    pev,          \* per publisher: the payload being published
    pn,           \* per publisher: publish calls begun so far
    regAt,        \* per subscriber: pn at the moment its queue was registered
    offered,      \* per subscriber: payloads put_nowait was called with on its queue
    dropped,      \* per subscriber: payloads refused with queue.Full, and the
                  \*   length the queue had then
    pollLeft,     \* per subscriber: seconds left of q.get(timeout=2.0)
    hbAge,        \* per subscriber: time.time() - last_hb, in seconds
    quiet,        \* per subscriber: seconds since an item last came off its queue
    pinged        \* per subscriber: a heartbeat was yielded since then

coreVars == <<config, messages, processed, published, rpc, nSts, sidx, st,
              wpc, nActs, idx, cur, remaining, slept, res, hist, updateCalls, handled>>

pubVars  == <<ppc, pend, pev, pn>>
timeVars == <<pollLeft, hbAge, quiet, pinged>>
rtVars   == <<subs, queue, gpc, chan, got, pubVars, regAt, offered, dropped, timeVars>>

\* the session manager of app/sessions.py and the threads that use it
VARIABLES
    sessions,     \* SessionManager._sessions: key -> session
    clock,        \* what now_utc() returns, in clock readings
    jumps,        \* times the clock has moved on
    created,      \* sessions created so far (the source of session_id)
    swpc,         \* sweeping thread: position in cleanup_expired()
    swNow,        \* sweeping thread: now
    swSize,       \* sweeping thread: the size the dict iterator remembers
    swSeen,       \* sweeping thread: keys the iteration has visited
    swVictims,    \* sweeping thread: victims
    swLeft,       \* sweeping thread: victims not yet popped
    swBefore,     \* the session map as the sweep found it
    swRet         \* sweeping thread: the value returned

sweepVars == <<swpc, swNow, swSize, swSeen, swVictims, swLeft, swBefore, swRet>>
smVars    == <<sessions, clock, jumps, created, sweepVars>>

\* receive() of an application that configures a session manager, with the
\* tenant automation of tenants/cliente_x.py
VARIABLES
    nIn,          \* inbound events handled so far
    lastEv,       \* the inbound event handled last
    replies       \* the actions respond() returned for it

flowVars == <<nIn, lastEv, replies>>

\* receive() seen from the table of inbound rows, and POST /send of
\* blueprints/outbound.py
VARIABLES
    nBodies,      \* message webhooks whose step 2.1 has run
    inEvents,     \* the normalized events of those webhooks, with the tenant
                  \*   resolved for their webhook, in the order they were looped over
    inPub,        \* the broadcaster.publish calls of step 2.1, in call order
    secret,       \* app.config["INTERNAL_SEND_TOKEN"]
    nReq,         \* POST /send requests answered so far
    lastReq,      \* the request answered last
    lastResp,     \* the HTTP status code it got
    gateway       \* the send_text / send_template calls made, in call order

inboxVars == <<nBodies, inEvents, inPub>>
sendVars  == <<secret, nReq, lastReq, lastResp, gateway>>
apiVars   == <<inboxVars, sendVars>>

\* what the webhook handler and its worker leave alone: with no subscriber
\* attached, broadcaster.publish finds no queue to put to, and the shipped
\* application configures no session manager
sideVars == <<rtVars, smVars, flowVars, apiVars>>

vars == <<coreVars, sideVars>>

reqVars    == <<rpc, nSts, sidx, st>>
workerVars == <<wpc, nActs, idx, cur, remaining, slept, res, hist>>

\* ------------------------------------------------------------ the store

\* a dedupe lookup that never finds the id
has_processed_id_never(p, x) == FALSE

has_processed_id(p, x) == x \in p

\* a dedupe insert that is lost
add_processed_id_lost(p, x) == p

add_processed_id(p, x) == p \cup {x}

update_message_status_by_external_id(m, x, s) ==
    [i \in DOMAIN m |->
        IF m[i].external_msg_id = x THEN [m[i] EXCEPT !.status = s] ELSE m[i]]

\* a column without the UNIQUE constraint
UniqueViolation_never(m, x) == FALSE

\* external_msg_id TEXT UNIQUE: a second row with the same non-null id is refused
UniqueViolation(m, x) ==
    x # None /\ \E i \in DOMAIN m : m[i].external_msg_id = x

\* rows kept newest first
insert_message_front(m, row) == <<row>> \o m

\* an INSERT that stores nothing and reports no error
insert_message_lost(m, row) == m

insert_message(m, row) == Append(m, row)

\* ------------------------------------------------------ the broadcaster

publish(b, payload) == b (+) SetToBag({payload})

StatusEvent(x, s) ==
    [type |-> "status", run |-> 0, idx |-> 0, external_msg_id |-> x, status |-> s]

MessageEvent(w, i, x, s) ==
    [type |-> "message", run |-> w, idx |-> i, external_msg_id |-> x, status |-> s]

\* ------------------------------------------------ realtime.py: the values

Subs == 1..NSubs
Pubs == 1..NPubs

Pnids  == {"111"}
Phones == {"5561", "5562"}

\* f"{pnid}|{phone}"
channel_key(pnid, phone) == pnid \o "|" \o phone

Channels == {channel_key(t, ph) : t \in Pnids, ph \in Phones}

PollTimeout    == 2     \* q.get(timeout=2.0)
HeartbeatAfter == 25    \* time.time() - last_hb > 25

NoPayload == [by |-> 0, n |-> 0, ch |-> None]

\* the three kinds of item a subscriber is handed: "retry: 1000\n\n",
\* "event: ping\ndata: {}\n\n" and
\* data = f"data: {json.dumps(payload)}\n\n"
Hint == [kind |-> "retry", payload |-> NoPayload]
Ping == [kind |-> "ping", payload |-> NoPayload]
Data(payload) == [kind |-> "data", payload |-> payload]

\* _Broadcaster.__init__ and no generator started, no publish under way
InitBroadcaster ==
    /\ subs = [c \in Channels |-> <<>>]
    /\ queue = [s \in Subs |-> <<>>]
    /\ gpc = [s \in Subs |-> "new"]
    /\ chan = [s \in Subs |-> None]
    /\ got = [s \in Subs |-> <<>>]
    /\ ppc = [p \in Pubs |-> "idle"]
    /\ pend = [p \in Pubs |-> <<>>]
    /\ pev = [p \in Pubs |-> NoPayload]
    /\ pn = [p \in Pubs |-> 0]
    /\ regAt = [s \in Subs |-> [p \in Pubs |-> 0]]
    /\ offered = [s \in Subs |-> {}]
    /\ dropped = [s \in Subs |-> {}]
    /\ pollLeft = [s \in Subs |-> 0]
    /\ hbAge = [s \in Subs |-> 0]
    /\ quiet = [s \in Subs |-> 0]
    /\ pinged = [s \in Subs |-> FALSE]

\* ------------------------------------------------ sessions.py: the values

\* _key(tenant, phone)
SessionKeys == Pnids \X Phones

\* DEFAULT_TTLS, in seconds
DEFAULT_TTLS ==
    [idle                    |-> 60 * 60,
     awaiting_menu_selection |-> 5 * 60,
     awaiting_name           |-> 20 * 60,
     awaiting_name_confirm   |-> 10 * 60,
     awaiting_email          |-> 20 * 60,
     booking_pending         |-> 24 * 60 * 60,
     escalated               |-> 12 * 60 * 60,
     closed                  |-> 5 * 60]

\* the states handed to set_state: one of the table and one outside it
StatePool == {"awaiting_menu_selection", "no_such_state"}

\* seconds as clock readings
Ticks(seconds) == seconds * 1000 * SubMs

\* how far the clock moves in one step: one reading, or the TTL of
\* awaiting_menu_selection
Jumps == {1, Ticks(5 * 60)}

\* iso(dt): isoformat(timespec="milliseconds") cuts dt to whole milliseconds;
\* datetime.fromisoformat reads that value back
iso(dt) == dt - (dt % SubMs)

\* SessionManager.__init__ with no ttls override, and no sweep under way
InitSessions ==
    /\ sessions = <<>>
    /\ clock = 0
    /\ jumps = 0
    /\ created = 0
    /\ swpc = "idle"
    /\ swNow = 0
    /\ swSize = 0
    /\ swSeen = {}
    /\ swVictims = {}
    /\ swLeft = {}
    /\ swBefore = <<>>
    /\ swRet = 0

\* the event slot before any inbound event was handled
NoEvent == [pnid |-> None, from |-> "", type |-> None, text |-> "", name |-> None]

InitFlow ==
    /\ nIn = 0
    /\ lastEv = NoEvent
    /\ replies = <<>>

\* the request slot before any POST /send was answered
NoRequest == [token |-> None, kind |-> "no_json", to |-> None, text |-> None,
              template |-> None]

InitApi ==
    /\ nBodies = 0
    /\ inEvents = <<>>
    /\ inPub = <<>>
    /\ secret = None
    /\ nReq = 0
    /\ lastReq = NoRequest
    /\ lastResp = 0
    /\ gateway = <<>>

\* ---------------------------------------------------------------- Init

Init ==
    /\ config \in [dry_run : BOOLEAN, default_delay : 0..MaxDelay]
    /\ messages = <<>>
    /\ processed = {}
    /\ published = EmptyBag
    /\ rpc = [r \in Reqs |-> "idle"]
    /\ nSts = [r \in Reqs |-> 0]
    /\ sidx = [r \in Reqs |-> 0]
    /\ st = [r \in Reqs |-> NoStatus]
    /\ wpc = [w \in Reqs |-> "idle"]
    /\ nActs = [w \in Reqs |-> 0]
    /\ idx = [w \in Reqs |-> 0]
    /\ cur = [w \in Reqs |-> NoAction]
    /\ remaining = [w \in Reqs |-> 0]
    /\ slept = [w \in Reqs |-> 0]
    /\ res = [w \in Reqs |-> NoRes]
    /\ hist = [w \in Reqs |-> <<>>]
    /\ updateCalls = [x \in ExtIds |-> 0]
    /\ handled = {}
    /\ InitBroadcaster
    /\ InitSessions
    /\ InitFlow
    /\ InitApi

\* ------------------------------------------------- receive(): the request

\* POST / arrives with a body; the handler reaches step 4.  A body carries
\* messages or statuses, as the provider sends them and as
\* tests/factories/event_factory.py builds them: n status entries and no
\* action, or no status entry and the k actions the automation answered.
Receive(r) ==
    /\ rpc[r] = "idle"
    /\ \E n \in 0..MaxStatuses, k \in 0..MaxActions :
          /\ n = 0 \/ k = 0
          /\ nSts' = [nSts EXCEPT ![r] = n]
          /\ nActs' = [nActs EXCEPT ![r] = k]
    /\ rpc' = [rpc EXCEPT ![r] = "dispatch"]
    /\ UNCHANGED <<sideVars, config, messages, processed, published, sidx, st, wpc, idx, cur,
                   remaining, slept, res, hist, updateCalls, handled>>

\* The same, when webhook calls are handled one at a time.
ReceiveSeq(r) ==
    /\ \A q \in Reqs : rpc[q] \in {"idle", "done"}
    /\ Receive(r)

\* Step 4: t = threading.Thread(target=_worker, daemon=True); t.start()
StartDispatch(r) ==
    /\ rpc[r] = "dispatch"
    /\ wpc[r] = "idle"
    /\ wpc' = [wpc EXCEPT ![r] = "loop"]
    /\ rpc' = [rpc EXCEPT ![r] = "statuses"]
    /\ UNCHANGED <<sideVars, config, messages, processed, published, nSts, sidx, st, nActs, idx,
                   cur, remaining, slept, res, hist, updateCalls, handled>>

\* Step 5, loop head: msg_id and has_processed_id(db_path, msg_id)
StCheck(r) ==
    /\ rpc[r] = "statuses"
    /\ sidx[r] < nSts[r]
    /\ \E e \in StatusPool :
          /\ st' = [st EXCEPT ![r] = e]
          /\ rpc' = [rpc EXCEPT ![r] =
                IF e.id # None /\ has_processed_id(processed, e.id)
                THEN "st_publish"
                ELSE IF e.id # None /\ e.status # None
                     THEN "st_update"
                     ELSE "st_publish"]
    /\ UNCHANGED <<sideVars, config, messages, processed, published, nSts, sidx, workerVars,
                   updateCalls, handled>>

\* update_message_status_by_external_id(db_path, msg_id, st["status"])
StUpdate(r) ==
    /\ rpc[r] = "st_update"
    /\ messages' = update_message_status_by_external_id(messages, st[r].id, st[r].status)
    /\ updateCalls' = [updateCalls EXCEPT ![st[r].id] = @ + 1]
    /\ rpc' = [rpc EXCEPT ![r] = "st_add"]
    /\ UNCHANGED <<sideVars, config, processed, published, nSts, sidx, st, workerVars, handled>>

\* add_processed_id(db_path, msg_id)
StAdd(r) ==
    /\ rpc[r] = "st_add"
    /\ processed' = add_processed_id(processed, st[r].id)
    /\ rpc' = [rpc EXCEPT ![r] = "st_publish"]
    /\ UNCHANGED <<sideVars, config, messages, published, nSts, sidx, st, workerVars,
                   updateCalls, handled>>

\* broadcaster.publish(ch, {"type": "status", ...}), then the next entry
StPublish(r) ==
    /\ rpc[r] = "st_publish"
    /\ published' = publish(published, StatusEvent(st[r].id, st[r].status))
    /\ handled' = IF st[r].id # None /\ st[r].status # None
                  THEN handled \cup {st[r].id} ELSE handled
    /\ sidx' = [sidx EXCEPT ![r] = @ + 1]
    /\ st' = [st EXCEPT ![r] = NoStatus]
    /\ rpc' = [rpc EXCEPT ![r] = "statuses"]
    /\ UNCHANGED <<sideVars, config, messages, processed, nSts, workerVars, updateCalls>>

\* a handler that joins its worker thread before it answers
Return_joins(r) ==
    /\ rpc[r] = "statuses"
    /\ sidx[r] = nSts[r]
    /\ wpc[r] = "done"
    /\ rpc' = [rpc EXCEPT ![r] = "done"]
    /\ UNCHANGED <<sideVars, config, messages, processed, published, nSts, sidx, st, workerVars,
                   updateCalls, handled>>

\* return ("", 200)
Return(r) ==
    /\ rpc[r] = "statuses"
    /\ sidx[r] = nSts[r]
    /\ rpc' = [rpc EXCEPT ![r] = "done"]
    /\ UNCHANGED <<sideVars, config, messages, processed, published, nSts, sidx, st, workerVars,
                   updateCalls, handled>>

\* ------------------------------------------------ _worker(): the dispatch

\* the default delay applied before the first action too
DelaySeconds_default_at_zero(a, i, default_delay) ==
    IF a.dkind = "int" THEN a.delay ELSE default_delay

\* the action's own delay ignored
DelaySeconds_ignores_own(a, i, default_delay) ==
    IF i > 0 THEN default_delay ELSE 0

\* delay_s of lines 134-138
DelaySeconds(a, i, default_delay) ==
    IF a.dkind = "int" THEN a.delay
    ELSE IF i > 0 THEN default_delay ELSE 0

\* a failed send that ends the batch (break instead of the per-action except)
Done_breaks(w, result, sends) ==
    /\ hist' = [hist EXCEPT ![w] = Append(@, [result |-> result, sends |-> sends])]
    /\ idx' = [idx EXCEPT ![w] = @ + 1]
    /\ cur' = [cur EXCEPT ![w] = NoAction]
    /\ res' = [res EXCEPT ![w] = NoRes]
    /\ slept' = [slept EXCEPT ![w] = 0]
    /\ wpc' = [wpc EXCEPT ![w] = IF result = "raised" THEN "done" ELSE "loop"]

\* the end of one loop iteration: its outcome is recorded, the next begins
Done(w, result, sends) ==
    /\ hist' = [hist EXCEPT ![w] = Append(@, [result |-> result, sends |-> sends])]
    /\ idx' = [idx EXCEPT ![w] = @ + 1]
    /\ cur' = [cur EXCEPT ![w] = NoAction]
    /\ res' = [res EXCEPT ![w] = NoRes]
    /\ slept' = [slept EXCEPT ![w] = 0]
    /\ wpc' = [wpc EXCEPT ![w] = "loop"]

\* a recipient test that lets every action through
HasRecipient_always(a) == TRUE

\* to = a.get("to"); "if not to: continue" is taken when this is false
HasRecipient(a) == a.to # ""

\* for idx, a in enumerate(actions): skip without "to", else compute delay_s
WLoop(w) ==
    /\ wpc[w] = "loop"
    /\ idx[w] < nActs[w]
    /\ \E a \in ActionPool :
          IF ~HasRecipient(a)
          THEN /\ Done(w, "skipped", 0)
               /\ UNCHANGED remaining
          ELSE /\ cur' = [cur EXCEPT ![w] = a]
               /\ remaining' = [remaining EXCEPT ![w] =
                     IF DelaySeconds(a, idx[w], config.default_delay) > 0
                     THEN DelaySeconds(a, idx[w], config.default_delay) ELSE 0]
               /\ slept' = [slept EXCEPT ![w] = 0]
               /\ wpc' = [wpc EXCEPT ![w] = "send"]
               /\ UNCHANGED <<idx, res, hist>>
    /\ UNCHANGED <<sideVars, config, messages, processed, published, reqVars, nActs,
                   updateCalls, handled>>

\* a worker that ends as soon as its request has been answered
WFinish_with_request(w) ==
    /\ wpc[w] = "loop"
    /\ idx[w] = nActs[w] \/ rpc[w] = "done"
    /\ wpc' = [wpc EXCEPT ![w] = "done"]
    /\ UNCHANGED <<sideVars, config, messages, processed, published, reqVars, nActs, idx, cur,
                   remaining, slept, res, hist, updateCalls, handled>>

\* the for loop is exhausted: the thread ends
WFinish(w) ==
    /\ wpc[w] = "loop"
    /\ idx[w] = nActs[w]
    /\ wpc' = [wpc EXCEPT ![w] = "done"]
    /\ UNCHANGED <<sideVars, config, messages, processed, published, reqVars, nActs, idx, cur,
                   remaining, slept, res, hist, updateCalls, handled>>

\* one second passes for every thread inside time.sleep
Tick ==
    /\ \E w \in Reqs : wpc[w] = "send" /\ remaining[w] > 0
    /\ remaining' = [w \in Reqs |->
          IF wpc[w] = "send" /\ remaining[w] > 0 THEN remaining[w] - 1 ELSE remaining[w]]
    /\ slept' = [w \in Reqs |->
          IF wpc[w] = "send" /\ remaining[w] > 0 THEN slept[w] + 1 ELSE slept[w]]
    /\ UNCHANGED <<sideVars, config, messages, processed, published, reqVars, wpc, nActs, idx,
                   cur, res, hist, updateCalls, handled>>

\* What wa_post can do: simulate (DRY_RUN: no "messages" in the result, so
\* no id and no status), raise (ok = FALSE: misconfiguration, network or HTTP
\* error), or return the provider's answer, with or without an id.  A
\* process without WHATSAPP_TOKEN raises on every send, in DRY_RUN too; it
\* stores nothing, and is the run of a live process whose sends all raise.
SendResults ==
    IF config.dry_run
    THEN {[ok |-> TRUE, external_msg_id |-> None, status |-> None]}
    ELSE {NoRes} \cup
         [ok : {TRUE}, external_msg_id : ExtIds \cup {None}, status : {"sent"}]

\* send_text / send_template once time.sleep(delay_s) has returned
WSend(w) ==
    /\ wpc[w] = "send"
    /\ remaining[w] = 0
    /\ \E o \in SendResults :
          IF o.ok
          THEN /\ res' = [res EXCEPT ![w] = o]
               /\ wpc' = [wpc EXCEPT ![w] = "insert"]
               /\ cur' = [cur EXCEPT ![w] = NoAction]
               /\ slept' = [slept EXCEPT ![w] = 0]
               /\ UNCHANGED <<idx, hist>>
          ELSE Done(w, "raised", 1)
    /\ UNCHANGED <<sideVars, config, messages, processed, published, reqVars, nActs, remaining,
                   updateCalls, handled>>

\* insert_message(...): sqlite3.IntegrityError lands in the per-action except
WInsert(w) ==
    /\ wpc[w] = "insert"
    /\ IF UniqueViolation(messages, res[w].external_msg_id)
       THEN /\ Done(w, "rejected", 1)
            /\ UNCHANGED messages
       ELSE /\ messages' = insert_message(messages,
                  [run |-> w, idx |-> idx[w], direction |-> "outbound",
                   external_msg_id |-> res[w].external_msg_id,
                   status |-> res[w].status])
            /\ wpc' = [wpc EXCEPT ![w] = "publish"]
            /\ UNCHANGED <<idx, cur, slept, res, hist>>
    /\ UNCHANGED <<sideVars, config, processed, published, reqVars, nActs, remaining,
                   updateCalls, handled>>

\* broadcaster.publish(ch, payload) of the outbound message
WPublish(w) ==
    /\ wpc[w] = "publish"
    /\ published' = publish(published,
          MessageEvent(w, idx[w], res[w].external_msg_id, res[w].status))
    /\ Done(w, "published", 1)
    /\ UNCHANGED <<sideVars, config, messages, processed, reqVars, nActs, remaining,
                   updateCalls, handled>>

\* -------------------------------------------------------- specifications

Worker(w) == WLoop(w) \/ WFinish(w) \/ WSend(w) \/ WInsert(w) \/ WPublish(w)

Handler(r) == StartDispatch(r) \/ StCheck(r) \/ StUpdate(r) \/ StAdd(r)
              \/ StPublish(r) \/ Return(r)

\* request threads and workers interleave freely
Next ==
    \/ \E r \in Reqs : Receive(r)
    \/ \E r \in Reqs : Handler(r)
    \/ \E w \in Reqs : Worker(w)
    \/ Tick

Spec == Init /\ [][Next]_vars

\* webhook calls are handled one after the other; their workers still run
\* beside the later calls
NextSeq ==
    \/ \E r \in Reqs : ReceiveSeq(r)
    \/ \E r \in Reqs : Handler(r)
    \/ \E w \in Reqs : Worker(w)
    \/ Tick

SpecSeq == Init /\ [][NextSeq]_vars

\* Webhook calls that carry messages only, with the scheduling the dispatch
\* relies on: every started worker thread keeps being scheduled and time
\* keeps passing.  Nothing is assumed of the request threads.
ReceiveMessages(r) ==
    /\ Receive(r)
    /\ nSts'[r] = 0

NextDispatch ==
    \/ \E r \in Reqs : ReceiveMessages(r)
    \/ \E r \in Reqs : StartDispatch(r) \/ Return(r)
    \/ \E w \in Reqs : Worker(w)
    \/ Tick

SpecFair ==
    /\ Init
    /\ [][NextDispatch]_vars
    /\ \A w \in Reqs : WF_vars(Worker(w))
    /\ WF_vars(Tick)

TypeOK ==
    /\ rpc \in [Reqs -> {"idle", "dispatch", "statuses", "st_update", "st_add",
                         "st_publish", "done", "failed"}]
    /\ wpc \in [Reqs -> {"idle", "loop", "send", "insert", "publish", "done"}]
    /\ processed \subseteq ExtIds
    /\ \A w \in Reqs : idx[w] \in 0..nActs[w] /\ remaining[w] \in 0..MaxDelay

\* ------------------------------------------------------------- counting

\* publish calls of type "status" made for external id x
StatusPublishes(x) ==
    BagCardinality([e \in {f \in DOMAIN published :
                              f.type = "status" /\ f.external_msg_id = x}
                    |-> published[e]])

\* publish calls of type "message" made for action i of run w
MessagePublishes(w, i) ==
    BagCardinality([e \in {f \in DOMAIN published :
                              f.type = "message" /\ f.run = w /\ f.idx = i}
                    |-> published[e]])

\* rows of table messages inserted for action i of run w
RowsOf(w, i) == {j \in DOMAIN messages : messages[j].run = w /\ messages[j].idx = i}

\* rows of table messages that carry external id x
RowsWithId(x) == {j \in DOMAIN messages : messages[j].external_msg_id = x}

\* ----------------------------------------------------------------- C1
\* C1: when webhooks that each carry one status entry, with the same message
\* id and the same status, are handled one after the other, one realtime
\* event of type "status" is published for it; the duplicate publishes
\* nothing.  (Stated as the claim has it; the code publishes for the
\* duplicate too.)
C1_DuplicatePublishesNothing ==
    (\A r \in Reqs : nSts[r] <= 1) =>
        \A x \in ExtIds, s \in StatusVals :
            CopiesIn(StatusEvent(x, s), published) <= 1

\* ----------------------------------------------------------------- C2
\* C2: with status webhooks handled one at a time,
\* update_message_status_by_external_id is called at most once per external
\* id, and has_processed_id(x) holds from the end of the first handling of a
\* status entry for x that carries a status.
C2_UpdateOnceThenProcessed ==
    \A x \in ExtIds :
        /\ updateCalls[x] <= 1
        /\ x \in handled => x \in processed

\* two status entries for the same id have been handled to the end, one update
C2_Witness ==
    \E x \in ExtIds :
        /\ updateCalls[x] = 1
        /\ StatusPublishes(x) = 2
        /\ x \in handled
        /\ \A r \in Reqs : rpc[r] = "done"

\* ----------------------------------------------------------------- C3
\* C3: when two status webhooks for the same id are handled by two request
\* threads whose store calls interleave, the update for that id is still
\* applied at most once.  (Stated as the claim has it; both threads can pass
\* has_processed_id before either reaches add_processed_id.)
C3_ConcurrentUpdateAtMostOnce ==
    \A x \in ExtIds : updateCalls[x] <= 1

\* ----------------------------------------------------------------- C4
\* C4: once a status event for external id x has been processed, no later
\* status event for x, whatever its status value, changes the status of a
\* stored message row of x.
C4_OnlyFirstStatusChangesRow ==
    [][\A x \in ExtIds :
          x \in processed =>
              \A j \in RowsWithId(x) : messages'[j].status = messages[j].status]_vars

\* a row of x took the status of the first status event, and an event for x
\* with another status was handled after it and left the row alone
C4_Witness ==
    \E x \in ExtIds, s1 \in StatusVals, s2 \in StatusVals :
        /\ s1 # s2
        /\ \E j \in RowsWithId(x) : messages[j].status = s1
        /\ CopiesIn(StatusEvent(x, s1), published) = 1
        /\ CopiesIn(StatusEvent(x, s2), published) = 1
        /\ \A r \in Reqs : rpc[r] = "done"

\* ----------------------------------------------------------------- C5
\* the run has attempted every action of its list, each at most once
AllAttempted(w) ==
    wpc[w] = "done" =>
        /\ Len(hist[w]) = nActs[w]
        /\ \A i \in 1..Len(hist[w]) :
              hist[w][i].sends = (IF hist[w][i].result = "skipped" THEN 0 ELSE 1)

\* C5 as the claim has it: every action with a recipient whose send succeeds
\* is stored as one outbound row and published as one event, a failing one
\* leaves no row and no event, and the actions after a failing one are still
\* attempted.
C5_EverySentActionStored ==
    \A w \in Reqs :
        /\ \A i \in 1..Len(hist[w]) :
              /\ hist[w][i].result \in {"published", "rejected"} =>
                    Cardinality(RowsOf(w, i - 1)) = 1 /\ MessagePublishes(w, i - 1) = 1
              /\ hist[w][i].result = "raised" =>
                    RowsOf(w, i - 1) = {} /\ MessagePublishes(w, i - 1) = 0
        /\ AllAttempted(w)

\* C5, amended: every action with a recipient whose send succeeds and whose
\* row the store accepts is stored as one outbound row and published as one
\* event; an action whose send fails, or whose row the store refuses because
\* its external id is already stored, leaves no row and no event; and the
\* actions after such an action are still attempted.
C5_StoredUnlessRefused ==
    \A w \in Reqs :
        /\ \A i \in 1..Len(hist[w]) :
              /\ hist[w][i].result = "published" =>
                    Cardinality(RowsOf(w, i - 1)) = 1 /\ MessagePublishes(w, i - 1) = 1
              /\ hist[w][i].result \in {"raised", "rejected", "skipped"} =>
                    RowsOf(w, i - 1) = {} /\ MessagePublishes(w, i - 1) = 0
        /\ AllAttempted(w)

\* a run whose first send failed and whose second action was stored and published
C5_Witness ==
    \E w \in Reqs :
        /\ wpc[w] = "done"
        /\ Len(hist[w]) = 2
        /\ hist[w][1].result = "raised"
        /\ hist[w][2].result = "published"
        /\ RowsOf(w, 0) = {}
        /\ Cardinality(RowsOf(w, 1)) = 1

\* ----------------------------------------------------------------- C6
\* C6 as the claim has it: the action at index 0 is sent without any wait,
\* whatever its own delay field and whatever the configured default.
C6_IndexZeroNeverWaits ==
    \A w \in Reqs :
        (wpc[w] = "send" /\ idx[w] = 0) => (slept[w] = 0 /\ remaining[w] = 0)

\* C6, amended: the action at index 0 is sent without any wait, whatever the
\* configured default delay, unless its own delay field is a positive
\* integer.
C6_IndexZeroIgnoresDefault ==
    \A w \in Reqs :
        (/\ wpc[w] = "send"
         /\ idx[w] = 0
         /\ ~(cur[w].dkind = "int" /\ cur[w].delay > 0))
        => (slept[w] = 0 /\ remaining[w] = 0)

\* index 0, no delay of its own, a default delay configured: ready to send
C6_Witness ==
    \E w \in Reqs :
        /\ wpc[w] = "send"
        /\ idx[w] = 0
        /\ cur[w].to # ""
        /\ cur[w].dkind \in {"none", "bad"}
        /\ config.default_delay > 0
        /\ remaining[w] = 0

\* ----------------------------------------------------------------- C7
\* the wait the claim asks for before an action at index > 0
ExpectedWait(a) ==
    IF a.dkind = "int" THEN a.delay ELSE config.default_delay

\* C7: an action at index i > 0 is sent only after the run has slept the
\* action's own delay when it gives one, and the configured default delay
\* otherwise, counted from the end of the previous action.
C7_SendAfterFullWait ==
    [][\A w \in Reqs :
          (wpc[w] = "send" /\ wpc'[w] # "send" /\ idx[w] > 0)
          => slept[w] = ExpectedWait(cur[w])]_vars

\* an action at index > 0 without a delay of its own has slept the default
C7_Witness ==
    \E w \in Reqs :
        /\ wpc[w] = "send"
        /\ idx[w] > 0
        /\ cur[w].dkind = "none"
        /\ config.default_delay > 0
        /\ slept[w] = config.default_delay
        /\ remaining[w] = 0

\* ----------------------------------------------------------------- C8
\* C8: within one run, actions are sent, stored and published in list order:
\* while action idx is being handled every earlier action is finished (its
\* row stored and its event published when it got that far), nothing of a
\* later action exists, and the rows of the run sit in the table in list
\* order.
C8_InListOrder ==
    \A w \in Reqs :
        /\ Len(hist[w]) = idx[w]
        /\ \A j \in DOMAIN messages :
              messages[j].run = w =>
                  \/ messages[j].idx < idx[w]
                  \/ messages[j].idx = idx[w] /\ wpc[w] = "publish"
        /\ \A e \in DOMAIN published :
              (e.type = "message" /\ e.run = w) => e.idx < idx[w]
        /\ \A i \in 1..Len(hist[w]) :
              hist[w][i].result = "published" =>
                  RowsOf(w, i - 1) # {} /\ MessagePublishes(w, i - 1) > 0
        /\ \A j, k \in DOMAIN messages :
              (messages[j].run = w /\ messages[k].run = w /\ j < k)
              => messages[j].idx < messages[k].idx

\* both runs stored two rows each, interleaved in the table
C8_Witness ==
    /\ \A w \in Reqs : wpc[w] = "done" /\ RowsOf(w, 0) # {} /\ RowsOf(w, 1) # {}
    /\ messages[1].run # messages[2].run

\* ----------------------------------------------------------------- C9
\* C9: a started dispatch run terminates under fair scheduling, whatever the
\* request that started it does, and by then every action with a recipient
\* has had exactly one send attempt.
C9_RunsToCompletion ==
    \A w \in Reqs :
        (wpc[w] = "loop") ~>
            (/\ wpc[w] = "done"
             /\ Len(hist[w]) = nActs[w]
             /\ \A i \in 1..Len(hist[w]) :
                   hist[w][i].result # "skipped" => hist[w][i].sends = 1)

\* a run is over whose two sends both failed, each attempted once
C9_Witness ==
    \E w \in Reqs :
        /\ wpc[w] = "done"
        /\ Len(hist[w]) = 2
        /\ \A i \in 1..2 : hist[w][i].result = "raised" /\ hist[w][i].sends = 1

\* ---------------------------------------------------------------- C10
\* C10: the handler never waits for the run it started: from arrival to the
\* response every step of the handler is possible whatever its worker is
\* doing, and every call has a run of its own, started by that call.
C10_HandlerNeverWaits ==
    \A r \in Reqs :
        /\ rpc[r] \notin {"idle", "done"} => ENABLED Handler(r)
        /\ wpc[r] # "idle" <=> rpc[r] \notin {"idle", "dispatch"}

\* a response has been returned while its run still has a send pending, and
\* the run of another call is under way at the same time
C10_Witness ==
    \E r, q \in Reqs :
        /\ r # q
        /\ rpc[r] = "done"
        /\ wpc[r] = "send"
        /\ idx[r] < nActs[r]
        /\ wpc[q] \in {"send", "insert", "publish"}

\* ------------------------------------------------------------------ C11
\* C11: an action without a recipient is skipped silently.  The worker never
\* waits for it and never sends it (the delay and the send both happen at
\* position "send", where it is never the current action), its iteration
\* leaves no send, no row of messages and no realtime event, and a run that
\* has ended has gone through every action of its list, the ones after a
\* skipped action included.
C11_NoRecipientSkippedSilently ==
    \A w \in Reqs :
        /\ wpc[w] = "send" => cur[w].to # ""
        /\ \A i \in DOMAIN hist[w] :
              hist[w][i].result = "skipped" =>
                  /\ hist[w][i].sends = 0
                  /\ RowsOf(w, i - 1) = {}
                  /\ MessagePublishes(w, i - 1) = 0
        /\ wpc[w] = "done" => Len(hist[w]) = nActs[w]

\* a finished run whose first action had no recipient and whose second action
\* was sent, stored and published
C11_Witness ==
    \E w \in Reqs :
        /\ wpc[w] = "done"
        /\ Len(hist[w]) = 2
        /\ hist[w][1].result = "skipped"
        /\ hist[w][2].result = "published"
        /\ RowsOf(w, 0) = {}
        /\ RowsOf(w, 1) # {}

\* =================================================== realtime.py: model

\* a queue that takes every item, whatever its length
put_nowait_unbounded(q, item) == Append(q, item)

\* a queue that takes each new item in front of the waiting ones
put_nowait_front(q, item) == IF Len(q) >= MaxQueue THEN q ELSE <<item>> \o q

\* q.put_nowait(data) under "except queue.Full: pass": a full queue is left
\* as it is
put_nowait(q, item) == IF Len(q) >= MaxQueue THEN q ELSE Append(q, item)

\* lst.remove(q)
ListRemove(lst, s) == SelectSeq(lst, LAMBDA x : x # s)

\* a snapshot taken of the list of another channel
Snapshot_other(c) == subs[CHOOSE d \in Channels : d # c]

\* list(self._subs.get(channel, []))
Snapshot(c) == subs[c]

\* a new queue that starts with what waits in the channel's oldest queue
NewQueue_replay(c) == IF subs[c] = <<>> THEN <<>> ELSE queue[subs[c][1]]

\* q = queue.Queue(maxsize=1000): a new queue holds nothing
NewQueue(c) == <<>>

Registered(s) == \E c \in Channels : \E i \in DOMAIN subs[c] : subs[c][i] = s

\* the first next() on the generator: the queue is made and appended to the
\* channel's list, and the reconnection hint is yielded
Subscribe(s) ==
    /\ gpc[s] = "new"
    /\ \E c \in Channels :
          /\ chan' = [chan EXCEPT ![s] = c]
          /\ queue' = [queue EXCEPT ![s] = NewQueue(c)]
          /\ subs' = [subs EXCEPT ![c] = Append(subs[c], s)]
    /\ gpc' = [gpc EXCEPT ![s] = "hint"]
    /\ got' = [got EXCEPT ![s] = <<Hint>>]
    /\ regAt' = [regAt EXCEPT ![s] = pn]
    /\ UNCHANGED <<coreVars, smVars, flowVars, apiVars, pubVars, offered, dropped, timeVars>>

\* the consumer asks for the next item: the generator runs on into
\* q.get(timeout=2.0); coming from the hint it enters the try and sets last_hb
Pull(s) ==
    /\ gpc[s] \in {"hint", "yielded"}
    /\ gpc' = [gpc EXCEPT ![s] = "wait"]
    /\ pollLeft' = [pollLeft EXCEPT ![s] = PollTimeout]
    /\ IF gpc[s] = "hint"
       THEN /\ hbAge' = [hbAge EXCEPT ![s] = 0]
            /\ quiet' = [quiet EXCEPT ![s] = 0]
            /\ pinged' = [pinged EXCEPT ![s] = FALSE]
       ELSE UNCHANGED <<hbAge, quiet, pinged>>
    /\ UNCHANGED <<coreVars, smVars, flowVars, apiVars, subs, queue, chan, got, pubVars, regAt, offered, dropped>>

\* item = q.get(timeout=2.0) returns an item; yield item
Get(s) ==
    /\ gpc[s] = "wait"
    /\ queue[s] # <<>>
    /\ got' = [got EXCEPT ![s] = Append(got[s], Head(queue[s]))]
    /\ queue' = [queue EXCEPT ![s] = Tail(queue[s])]
    /\ gpc' = [gpc EXCEPT ![s] = "yielded"]
    /\ quiet' = [quiet EXCEPT ![s] = 0]
    /\ pinged' = [pinged EXCEPT ![s] = FALSE]
    /\ UNCHANGED <<coreVars, smVars, flowVars, apiVars, subs, chan, pubVars, regAt, offered, dropped, pollLeft, hbAge>>

\* a heartbeat test that never fires
HeartbeatDue_never(age) == FALSE

\* time.time() - last_hb > 25
HeartbeatDue(age) == age > HeartbeatAfter

\* q.get raises queue.Empty after its two seconds: a heartbeat is yielded
\* when last_hb is more than 25 seconds old, else the loop calls q.get again
Timeout(s) ==
    /\ gpc[s] = "wait"
    /\ queue[s] = <<>>
    /\ pollLeft[s] = 0
    /\ IF HeartbeatDue(hbAge[s])
       THEN /\ hbAge' = [hbAge EXCEPT ![s] = 0]
            /\ got' = [got EXCEPT ![s] = Append(got[s], Ping)]
            /\ gpc' = [gpc EXCEPT ![s] = "yielded"]
            /\ pinged' = [pinged EXCEPT ![s] = TRUE]
            /\ UNCHANGED pollLeft
       ELSE /\ pollLeft' = [pollLeft EXCEPT ![s] = PollTimeout]
            /\ UNCHANGED <<hbAge, got, gpc, pinged>>
    /\ UNCHANGED <<coreVars, smVars, flowVars, apiVars, subs, queue, chan, pubVars, regAt, offered, dropped, quiet>>

\* the consumer ends the iteration: the generator is closed where it is
\* suspended.  At a yield inside the try the finally clause takes the queue
\* off the channel's list; the first yield stands before the try, so closing
\* there runs no finally.
Close(s) ==
    /\ gpc[s] \in {"hint", "yielded"}
    /\ gpc' = [gpc EXCEPT ![s] = "closed"]
    /\ IF gpc[s] = "yielded"
       THEN subs' = [subs EXCEPT ![chan[s]] = ListRemove(subs[chan[s]], s)]
       ELSE UNCHANGED subs
    /\ UNCHANGED <<coreVars, smVars, flowVars, apiVars, queue, chan, got, pubVars, regAt, offered, dropped, timeVars>>

\* publish calls begun so far by the publishers 1..n
RECURSIVE Begun(_)
Begun(n) == IF n = 0 THEN 0 ELSE pn[n] + Begun(n - 1)

\* publish(channel, payload), first half: under the lock,
\* queues = list(self._subs.get(channel, []))
PublishBegin(p) ==
    /\ ppc[p] = "idle"
    /\ Begun(NPubs) < MaxPub
    /\ \E c \in Channels :
          /\ pev' = [pev EXCEPT ![p] = [by |-> p, n |-> pn[p] + 1, ch |-> c]]
          /\ pend' = [pend EXCEPT ![p] = Snapshot(c)]
          /\ ppc' = [ppc EXCEPT ![p] = IF Snapshot(c) = <<>> THEN "idle" ELSE "put"]
    /\ pn' = [pn EXCEPT ![p] = pn[p] + 1]
    /\ UNCHANGED <<coreVars, smVars, flowVars, apiVars, subs, queue, gpc, chan, got, regAt, offered, dropped, timeVars>>

\* publish, second half: one round of "for q in queues: q.put_nowait(data)"
PublishPut(p) ==
    /\ ppc[p] = "put"
    /\ LET s == Head(pend[p]) IN
          /\ queue' = [queue EXCEPT ![s] = put_nowait(queue[s], Data(pev[p]))]
          /\ offered' = [offered EXCEPT ![s] = offered[s] \cup {pev[p]}]
          /\ dropped' = [dropped EXCEPT ![s] =
                IF queue'[s] = queue[s]
                THEN dropped[s] \cup {[payload |-> pev[p], had |-> Len(queue[s])]}
                ELSE dropped[s]]
    /\ pend' = [pend EXCEPT ![p] = Tail(pend[p])]
    /\ ppc' = [ppc EXCEPT ![p] = IF Tail(pend[p]) = <<>> THEN "idle" ELSE "put"]
    /\ UNCHANGED <<coreVars, smVars, flowVars, apiVars, subs, gpc, chan, got, pev, pn, regAt, timeVars>>

\* heartbeats handed to a subscriber so far
Beats(s) == Cardinality({i \in DOMAIN got[s] : got[s][i] = Ping})

\* one second passes for the subscribers.  The consumer of a stream asks for
\* the next item as soon as it was handed one, and q.get returns as soon as
\* the queue holds an item, so time passes only while every attached
\* generator sits in q.get on an empty queue with time left.
TickStream ==
    /\ \E s \in Subs : gpc[s] = "wait"
    /\ \A s \in Subs :
          /\ Beats(s) < MaxBeats
          /\ gpc[s] \notin {"hint", "yielded"}
          /\ gpc[s] = "wait" => queue[s] = <<>> /\ pollLeft[s] > 0
    /\ pollLeft' = [s \in Subs |->
          IF gpc[s] = "wait" THEN pollLeft[s] - 1 ELSE pollLeft[s]]
    /\ hbAge' = [s \in Subs |->
          IF gpc[s] = "wait" /\ hbAge[s] <= HeartbeatAfter
          THEN hbAge[s] + 1 ELSE hbAge[s]]
    /\ quiet' = [s \in Subs |->
          IF gpc[s] = "wait" /\ quiet[s] < HeartbeatAfter + PollTimeout
          THEN quiet[s] + 1 ELSE quiet[s]]
    /\ UNCHANGED <<coreVars, smVars, flowVars, apiVars, subs, queue, gpc, chan, got, pubVars, regAt, offered,
                   dropped, pinged>>

Subscriber(s) == Subscribe(s) \/ Pull(s) \/ Get(s) \/ Close(s)

Publisher(p) == PublishBegin(p) \/ PublishPut(p)

\* subscribers that come and go while publishers publish
NextStream ==
    \/ \E s \in Subs : Subscriber(s)
    \/ \E p \in Pubs : Publisher(p)

SpecStream == Init /\ [][NextStream]_vars

\* the stream's items as one sequence: what was handed over, then what waits
Passed(s) == got[s] \o queue[s]

\* the payloads among the items of a sequence
Payloads(items) == {items[i].payload : i \in {j \in DOMAIN items : items[j].kind = "data"}}

\* how often payload e stands in a sequence of items
Occurrences(items, e) ==
    Cardinality({i \in DOMAIN items : items[i] = Data(e)})

\* the queues a publisher has still to put to
Pending(p) == {pend[p][i] : i \in DOMAIN pend[p]}

\* the payloads a subscriber's queue refused
Refused(s) == {d.payload : d \in dropped[s]}

\* ------------------------------------------------------------------ C12
\* C12: an event published to a channel is enqueued only on queues registered
\* under that channel: whatever subscribers and publishers do, every event a
\* subscriber was handed or has waiting in its queue was published to the
\* channel the subscriber subscribed to.
C12_OnlyOwnChannel ==
    \A s \in Subs :
        /\ \A e \in Payloads(Passed(s)) : e.ch = chan[s]
        /\ \A e \in offered[s] : e.ch = chan[s]

\* two subscribers registered under distinct channels, then a publish to the
\* channel of the first that has ended: the first has the event, the second
\* has none
C12_Witness ==
    \E s, t \in Subs : \E p \in Pubs :
        /\ Registered(s) /\ Registered(t)
        /\ chan[s] # chan[t]
        /\ ppc[p] = "idle" /\ pn[p] > 0
        /\ regAt[t][p] < pev[p].n
        /\ pev[p].ch = chan[s]
        /\ pev[p] \in Payloads(Passed(s))
        /\ Payloads(Passed(t)) = {}

\* ------------------------------------------------------------------ C13
\* C13: publish never blocks and never raises.  A publisher that has queues
\* left to put to can always take its next step; a queue refuses an event
\* only when it already holds its full capacity, and then only that queue
\* misses the event: every queue put to either refused it or holds it once
\* (handed over or waiting), every subscriber that was registered under the
\* channel before the publish began and still is has been put to once the
\* publisher is past it; and no queue ever holds more than its capacity.
C13_PublishNeverBlocks ==
    /\ \A p \in Pubs : ppc[p] = "put" => ENABLED PublishPut(p)
    /\ \A s \in Subs :
          /\ Len(queue[s]) <= MaxQueue
          /\ \A d \in dropped[s] : d.had = MaxQueue
          /\ \A e \in offered[s] :
                e \in Refused(s) \/ Occurrences(Passed(s), e) = 1
    /\ \A p \in Pubs : \A s \in Subs :
          ( /\ pn[p] > 0
            /\ Registered(s)
            /\ chan[s] = pev[p].ch
            /\ regAt[s][p] < pev[p].n
            /\ ppc[p] = "idle" \/ s \notin Pending(p) )
          => pev[p] \in offered[s]

\* two subscribers of one channel: the queue of one was full and refused an
\* event that the other, which had room, holds
C13_Witness ==
    \E s, t \in Subs : \E e \in Refused(s) :
        /\ s # t
        /\ chan[s] = chan[t]
        /\ Len(queue[s]) = MaxQueue
        /\ e \in Payloads(Passed(t))
        /\ e \notin Payloads(Passed(s))

\* ------------------------------------------------------------------ C14
\* C14: whenever a subscriber's iteration has ended, at whatever point after
\* its queue was registered (directly after the reconnection hint included),
\* its queue is no longer in the channel's subscriber list, so that later
\* publishes do not put to it.  (Stated as the claim has it; a generator
\* closed at its first yield runs no finally clause.)
C14_ClosedQueueRemoved ==
    \A s \in Subs : gpc[s] = "closed" => ~Registered(s)

\* ------------------------------------------------------------------ C15
\* C15: a subscriber receives only events published after its queue was
\* registered: every event it was handed or has waiting comes from a publish
\* call that began after the registration.
C15_NoBackfill ==
    \A s \in Subs : \A e \in Payloads(Passed(s)) : e.n > regAt[s][e.by]

\* a publish to a channel has ended, a subscriber then registered under that
\* channel, and it has since been handed an event of another publisher
C15_Witness ==
    \E s \in Subs : \E p \in Pubs :
        /\ regAt[s][p] = 1 /\ pn[p] = 1
        /\ pev[p].ch = chan[s]
        /\ \E e \in Payloads(got[s]) : e.by # p

\* ------------------------------------------------------------------ C16
\* C16: the first item a subscriber is handed is the reconnection hint, which
\* comes once; after it the events of one publisher come in the order in
\* which that publisher published them, and each event put to the queue and
\* not refused is in the stream exactly once.
C16_HintThenFifo ==
    \A s \in Subs :
        /\ got[s] # <<>> => got[s][1] = Hint
        /\ \A i \in DOMAIN got[s] : i > 1 => got[s][i].kind \in {"data", "ping"}
        /\ \A i, j \in DOMAIN Passed(s) :
              ( /\ i < j
                /\ Passed(s)[i].kind = "data" /\ Passed(s)[j].kind = "data"
                /\ Passed(s)[i].payload.by = Passed(s)[j].payload.by )
              => Passed(s)[i].payload.n < Passed(s)[j].payload.n
        /\ \A e \in offered[s] \ Refused(s) : Occurrences(Passed(s), e) = 1
        /\ Payloads(Passed(s)) \subseteq offered[s] \ Refused(s)

\* a subscriber that was handed the hint and then two events of one publisher
C16_Witness ==
    \E s \in Subs :
        /\ Len(got[s]) >= 3
        /\ got[s][2].kind = "data" /\ got[s][3].kind = "data"
        /\ got[s][2].payload.by = got[s][3].payload.by
        /\ got[s][2].payload.n + 1 = got[s][3].payload.n

\* ------------------------------------------------------------------ C17
\* the first next() of a generator while no other generator has been started
SubscribeAlone(s) ==
    /\ \A t \in Subs \ {s} : gpc[t] = "new"
    /\ Subscribe(s)

\* the publish calls of the first publishing thread
PublisherAlone(p) ==
    /\ p = 1
    /\ Publisher(p)

\* one attached subscriber with the clock running: its consumer stays, and
\* the events of one publishing thread arrive at any second
NextBeat ==
    \/ \E s \in Subs : SubscribeAlone(s) \/ Pull(s) \/ Get(s) \/ Timeout(s)
    \/ \E p \in Pubs : PublisherAlone(p)
    \/ TickStream

SpecBeat == Init /\ [][NextBeat]_vars

\* C17: while a subscriber is attached, when no item has come off its queue
\* for 25 seconds a heartbeat is yielded to it instead.  The generator looks
\* at the clock only when a two-second q.get has run out, so "25 seconds" is
\* met within one such poll cycle: once the silence has lasted 25 seconds and
\* one cycle, a heartbeat has been yielded during it.
C17_HeartbeatWhenQuiet ==
    \A s \in Subs :
        (gpc[s] \in {"wait", "yielded"} /\ quiet[s] >= HeartbeatAfter + PollTimeout)
            => pinged[s]

\* a subscriber whose queue gave nothing for more than 25 seconds and that
\* was handed a heartbeat meanwhile
C17_Witness ==
    \E s \in Subs :
        /\ quiet[s] > HeartbeatAfter
        /\ pinged[s]
        /\ got[s][Len(got[s])] = Ping

\* =================================================== sessions.py: model

\* a TTL lookup that takes the idle TTL for every state
TtlOf_always_idle(state) == DEFAULT_TTLS["idle"]

\* self._ttls.get(state, self._ttls["idle"])
TtlOf(state) ==
    IF state \in DOMAIN DEFAULT_TTLS THEN DEFAULT_TTLS[state] ELSE DEFAULT_TTLS["idle"]

\* _exp_for_state(state): iso(now_utc() + timedelta(seconds=int(ttl)))
exp_for_state(state, now) == iso(now + Ticks(TtlOf(state)))

\* an expiry test that spares the session whose expires_at is now
Expired_strict(sess, now) == sess.expires_at < now

\* datetime.fromisoformat(s["expires_at"]...) <= now
Expired(sess, now) == sess.expires_at <= now

\* the map without the key k: self._sessions.pop(k, None)
Pop(m, k) == [j \in DOMAIN m \ {k} |-> m[j]]

\* the map with m[k] = sess
Put(m, k, sess) == [j \in DOMAIN m \cup {k} |-> IF j = k THEN sess ELSE m[j]]

\* what get answers for a key that has no session (None in the code)
NoSession == [session_id |-> 0]

\* get(phone, tenant): self._sessions.get(self._key(tenant, phone))
get(m, k) == IF k \in DOMAIN m THEN m[k] ELSE NoSession

\* a touch that issues a fresh session_id to the session it finds
touch_renews(m, k, now, n) ==
    IF k \notin DOMAIN m
    THEN Put(m, k,
             [session_id         |-> n + 1,
              tenant             |-> k[1],
              phone              |-> k[2],
              state              |-> "idle",
              context            |-> <<>>,
              last_activity      |-> iso(now),
              expires_at         |-> exp_for_state("idle", now),
              attempts           |-> 0,
              locked_by_operator |-> None])
    ELSE [m EXCEPT ![k].last_activity = iso(now), ![k].session_id = n + 1]

\* a touch that also renews the expiry of the session it finds
touch_extends(m, k, now, n) ==
    IF k \notin DOMAIN m
    THEN Put(m, k,
             [session_id         |-> n + 1,
              tenant             |-> k[1],
              phone              |-> k[2],
              state              |-> "idle",
              context            |-> <<>>,
              last_activity      |-> iso(now),
              expires_at         |-> exp_for_state("idle", now),
              attempts           |-> 0,
              locked_by_operator |-> None])
    ELSE [m EXCEPT ![k].last_activity = iso(now),
                   ![k].expires_at = exp_for_state(m[k].state, now)]

\* touch(phone, tenant) on the map m at time now, n sessions created so far:
\* create the session at default_state "idle", or refresh last_activity of
\* the one that exists
touch(m, k, now, n) ==
    IF k \notin DOMAIN m
    THEN Put(m, k,
             [session_id         |-> n + 1,
              tenant             |-> k[1],
              phone              |-> k[2],
              state              |-> "idle",
              context            |-> <<>>,
              last_activity      |-> iso(now),
              expires_at         |-> exp_for_state("idle", now),
              attempts           |-> 0,
              locked_by_operator |-> None])
    ELSE [m EXCEPT ![k].last_activity = iso(now)]

\* set_state(phone, state, tenant): nothing without a session, else state,
\* expires_at and last_activity are set
set_state(m, k, state, now) ==
    IF k \in DOMAIN m
    THEN [m EXCEPT ![k].state = state,
                   ![k].expires_at = exp_for_state(state, now),
                   ![k].last_activity = iso(now)]
    ELSE m

\* a context update that keeps only the keys of updates
update_replaces(ctx, updates) == updates

\* ctx.update(updates)
update(ctx, updates) ==
    [key \in DOMAIN ctx \cup DOMAIN updates |->
        IF key \in DOMAIN updates THEN updates[key] ELSE ctx[key]]

\* a set_context that opens a session for a key that has none
set_context_creates(m, k, updates, now) ==
    IF k \in DOMAIN m
    THEN [m EXCEPT ![k].context = update(m[k].context, updates),
                   ![k].last_activity = iso(now)]
    ELSE Put(m, k,
             [session_id         |-> 1,
              tenant             |-> k[1],
              phone              |-> k[2],
              state              |-> "idle",
              context            |-> updates,
              last_activity      |-> iso(now),
              expires_at         |-> exp_for_state("idle", now),
              attempts           |-> 0,
              locked_by_operator |-> None])

\* set_context(phone, updates, tenant): nothing without a session, else the
\* updates are merged into the context and last_activity is set
set_context(m, k, updates, now) ==
    IF k \in DOMAIN m
    THEN [m EXCEPT ![k].context = update(m[k].context, updates),
                   ![k].last_activity = iso(now)]
    ELSE m

\* a request thread calls touch
Touch(k) ==
    /\ k \in DOMAIN sessions \/ created < MaxCreated
    /\ sessions' = touch(sessions, k, clock, created)
    /\ created' = IF k \in DOMAIN sessions THEN created ELSE created + 1
    /\ UNCHANGED <<coreVars, rtVars, flowVars, apiVars, clock, jumps, sweepVars>>

\* a request thread calls set_state
SetState(k, state) ==
    /\ sessions' = set_state(sessions, k, state, clock)
    /\ UNCHANGED <<coreVars, rtVars, flowVars, apiVars, clock, jumps, created, sweepVars>>

\* a request thread calls set_context
SetContext(k, updates) ==
    /\ sessions' = set_context(sessions, k, updates, clock)
    /\ UNCHANGED <<coreVars, rtVars, flowVars, apiVars, clock, jumps, created, sweepVars>>

\* time passes
Advance ==
    /\ jumps < MaxJumps
    /\ \E d \in Jumps : clock' = clock + d
    /\ jumps' = jumps + 1
    /\ UNCHANGED <<coreVars, rtVars, flowVars, apiVars, sessions, created, sweepVars>>

\* cleanup_expired(): now = now_utc(), and the comprehension starts to
\* iterate self._sessions.items()
SweepBegin ==
    /\ swpc = "idle"
    /\ swpc' = "iter"
    /\ swNow' = clock
    /\ swSize' = Cardinality(DOMAIN sessions)
    /\ swSeen' = {}
    /\ swVictims' = {}
    /\ swLeft' = {}
    /\ swBefore' = sessions
    /\ swRet' = 0
    /\ UNCHANGED <<coreVars, rtVars, flowVars, apiVars, sessions, clock, jumps, created>>

\* one round of the comprehension.  The dict iterator raises RuntimeError
\* ("dictionary changed size during iteration") when the dict no longer has
\* the size it had when the iteration began; else the next session is tested,
\* or the iteration is over.
SweepNext ==
    /\ swpc = "iter"
    /\ IF Cardinality(DOMAIN sessions) # swSize
       THEN /\ swpc' = "raised"
            /\ UNCHANGED <<swSeen, swVictims, swLeft>>
       ELSE IF DOMAIN sessions \subseteq swSeen
       THEN /\ swpc' = "pop"
            /\ swLeft' = swVictims
            /\ UNCHANGED <<swSeen, swVictims>>
       ELSE \E k \in DOMAIN sessions \ swSeen :
               /\ swSeen' = swSeen \cup {k}
               /\ swVictims' = IF Expired(sessions[k], swNow)
                               THEN swVictims \cup {k} ELSE swVictims
               /\ UNCHANGED <<swpc, swLeft>>
    /\ UNCHANGED <<coreVars, rtVars, flowVars, apiVars, sessions, clock, jumps, created,
                   swNow, swSize, swBefore, swRet>>

\* for k in victims: self._sessions.pop(k, None); return len(victims)
SweepPop ==
    /\ swpc = "pop"
    /\ IF swLeft = {}
       THEN /\ swpc' = "returned"
            /\ swRet' = Cardinality(swVictims)
            /\ UNCHANGED <<sessions, swLeft>>
       ELSE \E k \in swLeft :
               /\ sessions' = Pop(sessions, k)
               /\ swLeft' = swLeft \ {k}
               /\ UNCHANGED <<swpc, swRet>>
    /\ UNCHANGED <<coreVars, rtVars, flowVars, apiVars, clock, jumps, created,
                   swNow, swSize, swSeen, swVictims, swBefore>>

\* the caller of cleanup_expired goes on (receive() swallows the exception);
\* the locals of the call are gone
SweepEnd ==
    /\ swpc \in {"returned", "raised"}
    /\ swpc' = "idle"
    /\ swNow' = 0
    /\ swSize' = 0
    /\ swSeen' = {}
    /\ swVictims' = {}
    /\ swLeft' = {}
    /\ swBefore' = <<>>
    /\ swRet' = 0
    /\ UNCHANGED <<coreVars, rtVars, flowVars, apiVars, sessions, clock, jumps, created>>

Sweep == SweepBegin \/ SweepNext \/ SweepPop \/ SweepEnd

\* the session operations of the request threads
SessionOp ==
    \/ \E k \in SessionKeys : Touch(k)
    \/ \E k \in SessionKeys : \E state \in StatePool : SetState(k, state)

\* one request at a time: no other operation runs while a sweep is under way
NextSessions ==
    \/ swpc = "idle" /\ SessionOp
    \/ swpc = "idle" /\ Advance
    \/ Sweep

SpecSessions == Init /\ [][NextSessions]_vars

\* request threads of one process: touch and set_state run while another
\* thread sweeps (a sweep is short: the clock moves between sweeps)
NextSweep ==
    \/ SessionOp
    \/ swpc = "idle" /\ Advance
    \/ Sweep

SpecSweep == Init /\ [][NextSweep]_vars

\* ------------------------------------------------------------------ C18
\* the TTL table as the claim lists it, in seconds, with the idle TTL for a
\* state that is not in the table
ClaimedTtl(state) ==
    CASE state = "idle"                    -> 3600
      [] state = "awaiting_menu_selection" -> 300
      [] state = "awaiting_name"           -> 1200
      [] state = "awaiting_name_confirm"   -> 600
      [] state = "awaiting_email"          -> 1200
      [] state = "booking_pending"         -> 86400
      [] state = "escalated"               -> 43200
      [] state = "closed"                  -> 300
      [] OTHER                             -> 3600

\* C18: set_state on an existing session sets the session's state to the
\* given state and its expires_at to the call time plus the TTL the table
\* has for that state (the idle TTL for a state outside the table), written
\* as the timestamp iso() makes of it; and for every state of the table and
\* every state handed in, the expiry the manager computes is the one the
\* listed TTL gives.
C18_SetStateSetsExpiry ==
    [][ /\ \A k \in SessionKeys : \A state \in StatePool :
              (k \in DOMAIN sessions /\ SetState(k, state)) =>
                  /\ k \in DOMAIN sessions'
                  /\ sessions'[k].state = state
                  /\ sessions'[k].expires_at = iso(clock + Ticks(ClaimedTtl(state)))
        /\ \A state \in DOMAIN DEFAULT_TTLS \cup StatePool :
              exp_for_state(state, clock) = iso(clock + Ticks(ClaimedTtl(state)))
      ]_vars

\* a session that was set to a state outside the table at a moment between
\* two milliseconds: it expires one idle TTL after the millisecond of the call
C18_Witness ==
    \E k \in DOMAIN sessions :
        /\ sessions[k].state = "no_such_state"
        /\ clock % SubMs # 0
        /\ sessions[k].last_activity = iso(clock)
        /\ sessions[k].expires_at = iso(clock) + Ticks(3600)

\* ------------------------------------------------------------------ C19
\* the sessions of a map whose expires_at is at or before now
ExpiredKeys(m, now) == {k \in DOMAIN m : m[k].expires_at <= now}

\* C19: cleanup_expired removes exactly the sessions whose expires_at <= now
\* and no others, and returns the number removed: when it returns, the map
\* is the map it found without those sessions, each session kept is as it
\* was, and the value returned is their number; with no expired session it
\* returns 0 and the map is as it was.
C19_SweepRemovesExactlyExpired ==
    swpc = "returned" =>
        /\ swNow = clock
        /\ sessions = [k \in DOMAIN swBefore \ ExpiredKeys(swBefore, swNow) |-> swBefore[k]]
        /\ swRet = Cardinality(ExpiredKeys(swBefore, swNow))
        /\ ExpiredKeys(swBefore, swNow) = {} => swRet = 0 /\ sessions = swBefore

\* a sweep that found two sessions, one of them expiring at this very
\* moment, removed that one and returned 1
C19_Witness ==
    /\ swpc = "returned"
    /\ swRet = 1
    /\ Cardinality(DOMAIN swBefore) = 2
    /\ Cardinality(DOMAIN sessions) = 1
    /\ \E k \in DOMAIN swBefore \ DOMAIN sessions : swBefore[k].expires_at = swNow

\* ------------------------------------------------------------------ C20
\* C20: cleanup_expired is safe to run while other request threads call touch
\* and set_state: the sweep's iteration over the map never overlaps the
\* insertion of a new session, and the sweep never fails.  (Stated as the
\* claim has it; sessions.py takes no lock.)
C20_SweepNeverDisturbed ==
    /\ swpc = "iter" => Cardinality(DOMAIN sessions) = swSize
    /\ swpc # "raised"

\* ============================================ sessions.py: the context

\* the updates handed to set_context: one key, another key, and two keys at
\* once, one of them the first key with another value
CtxUpdates ==
    {[nome |-> "Ana"],
     [profile_name |-> "Bia"],
     [nome |-> "Bia", menu_selected |-> "1"]}

\* the session operations of the request threads, set_context among them
ContextOp ==
    \/ \E k \in SessionKeys : Touch(k)
    \/ \E k \in SessionKeys : SetState(k, "awaiting_menu_selection")
    \/ \E k \in SessionKeys : \E updates \in CtxUpdates : SetContext(k, updates)

\* one request at a time, and sweeps between requests
NextContext ==
    \/ swpc = "idle" /\ ContextOp
    \/ swpc = "idle" /\ Advance
    \/ Sweep

SpecContext == Init /\ [][NextContext]_vars

\* ------------------------------------------------------------------ C23
\* C23: every touch, set_state and set_context on a key that has a session
\* leaves the session in the map with the same session_id, tenant, phone and
\* attempts.
C23_IdentityKept ==
    [][\A k \in SessionKeys :
          ( /\ k \in DOMAIN sessions
            /\ \/ Touch(k)
               \/ SetState(k, "awaiting_menu_selection")
               \/ \E updates \in CtxUpdates : SetContext(k, updates) )
          => /\ k \in DOMAIN sessions'
             /\ sessions'[k].session_id = sessions[k].session_id
             /\ sessions'[k].tenant = sessions[k].tenant
             /\ sessions'[k].phone = sessions[k].phone
             /\ sessions'[k].attempts = sessions[k].attempts]_vars

\* the second session made, after a set_state, a set_context and a later
\* touch, still with the id, the key and the counter it was created with
C23_Witness ==
    \E k \in DOMAIN sessions :
        /\ sessions[k].session_id = 2
        /\ sessions[k].state = "awaiting_menu_selection"
        /\ "profile_name" \in DOMAIN sessions[k].context
        /\ sessions[k].last_activity > sessions[k].expires_at - Ticks(5 * 60)
        /\ <<sessions[k].tenant, sessions[k].phone>> = k
        /\ sessions[k].attempts = 0

\* ------------------------------------------------------------------ C24
\* C24: set_state and set_context on a key that has no session change
\* nothing: the map is left as it was, no session appears for the key or is
\* changed for another, and get still answers "absent" for the key.
C24_AbsentKeyNoOp ==
    [][\A k \in SessionKeys :
          ( /\ k \notin DOMAIN sessions
            /\ \/ \E state \in StatePool : SetState(k, state)
               \/ \E updates \in CtxUpdates : SetContext(k, updates) )
          => /\ sessions' = sessions
             /\ get(sessions', k) = NoSession]_vars

\* a key that never had a session beside one whose session took a set_state
\* and a set_context
C24_Witness ==
    /\ swpc = "idle"
    /\ created = 1
    /\ \E k \in SessionKeys, j \in DOMAIN sessions :
          /\ k \notin DOMAIN sessions
          /\ get(sessions, k) = NoSession
          /\ sessions[j].state = "awaiting_menu_selection"
          /\ DOMAIN sessions[j].context # {}

\* ------------------------------------------------------------------ C25
\* C25: set_context on a live session gives every key of updates its new
\* value and keeps every other key of the context with its value; touch and
\* set_state leave the context as it is.  No key ever leaves the context.
C25_ContextOnlyMerged ==
    [][\A k \in DOMAIN sessions :
          /\ \A updates \in CtxUpdates :
                SetContext(k, updates)
                => /\ DOMAIN sessions'[k].context
                        = DOMAIN sessions[k].context \cup DOMAIN updates
                   /\ \A key \in DOMAIN updates :
                         sessions'[k].context[key] = updates[key]
                   /\ \A key \in DOMAIN sessions[k].context \ DOMAIN updates :
                         sessions'[k].context[key] = sessions[k].context[key]
          /\ (Touch(k) \/ SetState(k, "awaiting_menu_selection"))
                => sessions'[k].context = sessions[k].context]_vars

\* a context whose "nome" was written twice (the later value is kept) while
\* "menu_selected" and "profile_name" stayed
C25_Witness ==
    \E k \in DOMAIN sessions :
        /\ DOMAIN sessions[k].context = {"nome", "menu_selected", "profile_name"}
        /\ sessions[k].context["nome"] = "Ana"
        /\ sessions[k].context["menu_selected"] = "1"
        /\ sessions[k].state = "awaiting_menu_selection"

\* ------------------------------------------------------------------ C26
\* C26: touch on a key that has a session changes last_activity of that
\* session and nothing else in the map; expires_at of a session changes only
\* in a set_state step.
C26_TouchOnlyActivity ==
    [][\A k \in DOMAIN sessions :
          /\ Touch(k)
                => sessions' = [sessions EXCEPT
                                   ![k].last_activity = sessions'[k].last_activity]
          /\ ( /\ k \in DOMAIN sessions'
               /\ sessions'[k].expires_at # sessions[k].expires_at )
                => SetState(k, "awaiting_menu_selection")]_vars

\* a session made at time 0 and touched later: last_activity moved, the
\* expiry is still the one of its creation
C26_Witness ==
    \E k \in DOMAIN sessions :
        /\ sessions[k].state = "idle"
        /\ DOMAIN sessions[k].context = {}
        /\ sessions[k].last_activity >= Ticks(5 * 60)
        /\ sessions[k].expires_at = exp_for_state("idle", 0)

\* ===================== tenants/cliente_x.py and receive() with sessions

\* the event types the normalizer emits for messages: the one the handler
\* and the automation act on, and one of the others
EventTypes == {"text", "image"}

\* the bodies of inbound text messages
Texts == {"menu", " MENU", "1", "2", "3", "oi", "sim", "ana"}

\* (metadata.phone_number_id, messages[].from) of the payloads: two senders
\* write to one business number (tenant) served with the cliente_x
\* automation, and one of them writes to a second one as well
FlowKeys == {<<"111", "5561">>, <<"111", "5562">>, <<"222", "5561">>}

\* contacts[].profile.name of the payload: missing, or a name
MetaNames == {None, "Bia"}

\* str.strip() on the texts above
strip(text) == IF text = " MENU" THEN "MENU" ELSE text

\* str.lower() on the stripped texts
lower(txt) == IF txt = "MENU" THEN "menu" ELSE txt

\* str.title() on the stripped texts
title(txt) ==
    CASE txt = "menu" -> "Menu"
      [] txt = "MENU" -> "Menu"
      [] txt = "oi"   -> "Oi"
      [] txt = "sim"  -> "Sim"
      [] txt = "ana"  -> "Ana"
      [] OTHER        -> txt

\* txt_norm in {"oi", "olá", "ola", "bom dia", "boa tarde", "boa noite"}
IsGreeting(txt_norm) ==
    txt_norm \in {"oi", "olá", "ola", "bom dia", "boa tarde", "boa noite"}

\* re.search(r"\bhor(a|á)rio\b|\bhorario\b", txt_norm), on single words
IsHours(txt_norm) == txt_norm \in {"horario", "horário"}

\* re.fullmatch(r"menu", txt_norm)
IsMenu(txt_norm) == txt_norm = "menu"

\* re.fullmatch(r"template\s+hello", txt_norm), with one blank
IsTemplateHello(txt_norm) == txt_norm = "template hello"

\* a menu that takes no choice
IsChoice_never(txt_norm) == FALSE

\* re.fullmatch(r"[123]", txt_norm)
IsChoice(txt_norm) == txt_norm \in {"1", "2", "3"}

\* YES_RE.match(txt_norm), on single words
IsYes(txt_norm) == txt_norm \in {"s", "sim", "ok", "isso", "pode", "claro"}

\* NO_RE.match(txt_norm), on single words
IsNo(txt_norm) == txt_norm \in {"n", "nao", "não", "negativo"}

\* _looks_like_name(s): a letter in it and at least two characters
looks_like_name(txt) == txt \in {"menu", "MENU", "oi", "sim", "ana"}

\* re.search(r"\bagend(ar|o)\b", txt_norm), on single words
IsSchedule(txt_norm) == txt_norm \in {"agendar", "agendo"}

\* ctx.get(key), None when the key is missing
CtxGet(ctx, key) == IF key \in DOMAIN ctx THEN ctx[key] ELSE None

\* the truth value Python gives ctx.get(key)
Truthy(v) == v # None /\ v # ""

\* _find_tenant_for_phone: the tenant of the first key of sm.snapshot()
\* whose phone is the sender's; a dict lists its keys in insertion order,
\* which is the order in which the sessions were created
_find_tenant_for_phone(m, phone) ==
    LET hits == {k \in DOMAIN m : k[2] = phone}
    IN  IF hits = {} THEN None
        ELSE (CHOOSE k \in hits :
                 \A j \in hits : m[k].session_id <= m[j].session_id)[1]

\* _get_session: sm.get(tenant=tenant, phone=phone); with tenant None the
\* positional call sm.get(phone) raises TypeError and None is returned
_get_session(m, tenant, phone) ==
    IF tenant = None THEN NoSession ELSE get(m, <<tenant, phone>>)

\* _set_state: sm.set_state(tenant=..., phone=..., state=...); with tenant
\* None the positional call raises TypeError, which is swallowed
_set_state(m, tenant, phone, state, now) ==
    IF tenant = None THEN m ELSE set_state(m, <<tenant, phone>>, state, now)

\* a helper that drops the update
_set_ctx_dropped(m, tenant, phone, updates, now) == m

\* _set_ctx: the same for set_context
_set_ctx(m, tenant, phone, updates, now) ==
    IF tenant = None THEN m ELSE set_context(m, <<tenant, phone>>, updates, now)

\* what respond hands back for one event: the session map it leaves and the
\* actions it appended, each named after its text
Answer(m, actions) == [sessions |-> m, actions |-> actions]

\* respond(events, settings) for one event e, with the session manager
\* holding the map m at time now
respond(m, e, now) ==
    IF e.type # "text" \/ e.from = "" THEN Answer(m, <<>>)
    ELSE
    LET to           == e.from
        txt          == strip(e.text)
        txt_norm     == lower(txt)
        tenant       == _find_tenant_for_phone(m, to)
        sess         == _get_session(m, tenant, to)
        state        == IF sess = NoSession THEN "idle" ELSE sess.state
        ctx          == IF sess = NoSession THEN <<>> ELSE sess.context
        nome         == CtxGet(ctx, "nome")
        profile_name == CtxGet(ctx, "profile_name")
    IN
    IF IsGreeting(txt_norm) THEN Answer(m, <<"greeting">>)
    ELSE IF IsHours(txt_norm) THEN Answer(m, <<"working_hours">>)
    ELSE IF /\ ~Truthy(nome)
            /\ Truthy(profile_name)
            /\ state \notin {"awaiting_name", "awaiting_name_confirm",
                              "awaiting_menu_selection", "awaiting_support_desc"}
    THEN Answer(_set_state(m, tenant, to, "awaiting_name_confirm", now),
                <<"ask_name_confirm">>)
    ELSE IF IsMenu(txt_norm)
    THEN Answer(_set_state(m, tenant, to, "awaiting_menu_selection", now),
                <<"menu">>)
    ELSE IF IsTemplateHello(txt_norm) THEN Answer(m, <<"template_hello">>)
    ELSE IF state = "awaiting_menu_selection" /\ IsChoice(txt_norm)
    THEN LET m1 == _set_ctx(m, tenant, to, [menu_selected |-> txt_norm], now)
         IN  IF txt_norm = "1"
             THEN Answer(_set_state(m1, tenant, to, "awaiting_name", now),
                         <<"ask_name">>)
             ELSE IF txt_norm = "2"
             THEN Answer(_set_state(m1, tenant, to, "awaiting_support_desc", now),
                         <<"ask_support_desc">>)
             ELSE Answer(_set_ctx(_set_state(m1, tenant, to, "escalated", now),
                                  tenant, to, [handoff_requested |-> TRUE], now),
                         <<"handoff">>)
    ELSE IF state = "awaiting_name_confirm"
    THEN IF IsYes(txt_norm) /\ Truthy(profile_name)
         THEN Answer(_set_state(_set_ctx(m, tenant, to, [nome |-> profile_name], now),
                                tenant, to, "idle", now),
                     <<"name_confirmed", "menu">>)
         ELSE IF ~IsNo(txt_norm) /\ looks_like_name(txt)
         THEN Answer(_set_state(_set_ctx(m, tenant, to, [nome |-> title(txt)], now),
                                tenant, to, "idle", now),
                     <<"name_taken", "menu">>)
         ELSE Answer(m, <<"ask_name_again">>)
    ELSE IF state = "awaiting_name"
    THEN Answer(_set_state(_set_ctx(m, tenant, to, [nome |-> title(txt)], now),
                           tenant, to, "idle", now),
                <<"pleased", "menu">>)
    ELSE IF state = "awaiting_support_desc"
    THEN Answer(_set_state(_set_ctx(m, tenant, to, [last_support_desc |-> txt], now),
                           tenant, to, "idle", now),
                <<"support_registered", "menu">>)
    ELSE IF IsSchedule(txt_norm) THEN Answer(m, <<"schedule_link", "schedule_confirm">>)
    ELSE Answer(m, <<"fallback">>)

\* cleanup_expired() with no other thread at work: every session whose
\* expires_at is not after now is removed
cleanup_expired(m, now) ==
    [k \in {j \in DOMAIN m : ~Expired(m[j], now)} |-> m[k]]

\* steps 2.1 and 3 of receive() for the event e, on the session map m at
\* time now with n sessions created so far: touch, the profile name, and
\* the automation
session_steps(m, e, now, n) ==
    LET k  == <<e.pnid, e.from>>
        m1 == IF e.type = "text" THEN touch(m, k, now, n) ELSE m
        m2 == IF /\ e.type = "text"
                 /\ e.name # None
                 /\ ~Truthy(CtxGet(get(m1, k).context, "nome"))
              THEN set_context(m1, k, [profile_name |-> e.name], now)
              ELSE m1
    IN  respond(m2, e, now)

\* receive() for a body with one inbound message, in an application that
\* configures a session manager and resolves the tenant to cliente_x: the
\* touch and the profile name of step 2.1, the automation of step 3 and
\* the sweep of step 6.  (The rows, the events and the dispatch of the
\* actions are those of Receive and Worker.)
Inbound(pnid, from, type, text, name) ==
    /\ nIn < MaxInbound
    /\ type = "text" /\ <<pnid, from>> \notin DOMAIN sessions => created < MaxCreated
    /\ LET k  == <<pnid, from>>
           e  == [pnid |-> pnid, from |-> from, type |-> type,
                  text |-> text, name |-> name]
           r  == session_steps(sessions, e, clock, created)
       IN  /\ sessions' = cleanup_expired(r.sessions, clock)
           /\ created' = IF type = "text" /\ k \notin DOMAIN sessions
                          THEN created + 1 ELSE created
           /\ lastEv' = e
           /\ replies' = r.actions
    /\ nIn' = nIn + 1
    /\ UNCHANGED <<coreVars, rtVars, apiVars, clock, jumps, sweepVars>>

\* webhook calls, one at a time, and the time between them
NextFlow ==
    \/ \E k \in FlowKeys, name \in MetaNames :
          \/ \E text \in Texts : Inbound(k[1], k[2], "text", text, name)
          \/ Inbound(k[1], k[2], "image", "", name)
    \/ Advance

SpecFlow == Init /\ [][NextFlow]_vars

\* ------------------------------------------------------------------ C21
\* C21: whatever inbound messages the tenant automation has handled, the
\* state of every session is one of the eight states idle,
\* awaiting_menu_selection, awaiting_name, awaiting_name_confirm,
\* awaiting_email, booking_pending, escalated, closed (the keys of the TTL
\* table).
C21_StateEnumerated ==
    \A k \in DOMAIN sessions : sessions[k].state \in DOMAIN DEFAULT_TTLS

\* ------------------------------------------------------------------ C22
\* C22: when the webhook handler has handled an inbound event from address A
\* for tenant T, of whatever type, a session for (T, A) exists.
C22_SessionAfterInbound ==
    [][nIn' # nIn => <<lastEv'.pnid, lastEv'.from>> \in DOMAIN sessions']_vars

BodyKinds == {"no_json", "object", "empty_array", "array", "string", "number"}

\* body = request.get_json(silent=True) or {}: is body a dict afterwards?
IsDict(kind) == kind \in {"no_json", "object", "empty_array"}

\* POST / with a body that parses to a non-empty array, a string or a
\* number: body.get("entry") in the first log call raises AttributeError
\* before the try statement is entered, and the view ends without a
\* response of its own (the framework answers 500)
ReceiveNotObject(r) ==
    /\ \A q \in Reqs : rpc[q] \in {"idle", "done", "failed"}
    /\ rpc[r] = "idle"
    /\ \E kind \in BodyKinds : ~IsDict(kind)
    /\ rpc' = [rpc EXCEPT ![r] = "failed"]
    /\ UNCHANGED <<sideVars, config, messages, processed, published, nSts, sidx, st,
                   workerVars, updateCalls, handled>>

\* POST / with a body of n status entries for which the automation function
\* raises: control leaves step 3 for the handler of the outer try, which
\* logs webhook.handler_error and returns ("", 200); steps 4 to 6 are not
\* run
ReceiveRaising(r) ==
    /\ \A q \in Reqs : rpc[q] \in {"idle", "done", "failed"}
    /\ rpc[r] = "idle"
    /\ \E n \in 1..MaxStatuses : nSts' = [nSts EXCEPT ![r] = n]
    /\ rpc' = [rpc EXCEPT ![r] = "done"]
    /\ UNCHANGED <<sideVars, config, messages, processed, published, sidx, st,
                   workerVars, updateCalls, handled>>

\* a body that is a dict, handled while no other call is
ReceiveObject(r) ==
    /\ \A q \in Reqs : rpc[q] \in {"idle", "done", "failed"}
    /\ Receive(r)

\* webhook calls, one at a time, with every body and with an automation
\* that may raise; the workers run beside the later calls
NextFaults ==
    \/ \E r \in Reqs : ReceiveObject(r)
    \/ \E r \in Reqs : ReceiveNotObject(r)
    \/ \E r \in Reqs : ReceiveRaising(r)
    \/ \E r \in Reqs : Handler(r)
    \/ \E w \in Reqs : Worker(w)
    \/ Tick

SpecFaults == Init /\ [][NextFaults]_vars

\* ------------------------------------------------------------------ C28
\* C28: the POST handler answers 200 whatever the request body and whatever
\* the outcome of its steps: no call ends without the handler's own
\* response.
C28_AlwaysOk ==
    \A r \in Reqs : rpc[r] # "failed"

\* ------------------------------------------------------------------ C29
\* C29: a failure of the automation function does not keep the status
\* entries of the same webhook from being processed: when the response has
\* been returned, every status entry of the body has been gone through.
C29_StatusesDespiteAutomation ==
    \A r \in Reqs : rpc[r] = "done" => sidx[r] = nSts[r]

\* ====================================== storage.py: the message table

\* the ids the provider hands out for sent messages
StoreIds == ExtIds \cup {"wamid.Y"}

\* receive() step 2.1: the row of an inbound text, external_msg_id=None
StoreInbound ==
    /\ Len(messages) < MaxRows
    /\ messages' = insert_message(messages,
           [run |-> 0, idx |-> 0, direction |-> "inbound",
            external_msg_id |-> None, status |-> None])
    /\ UNCHANGED <<sideVars, config, processed, published, reqVars, workerVars,
                   updateCalls, handled>>

\* _worker: the row of a sent action, with the id of the provider's answer
\* (None when the answer has none); the INSERT of an id that a row carries
\* raises sqlite3.IntegrityError and stores nothing
StoreOutbound(x) ==
    /\ Len(messages) < MaxRows
    /\ IF UniqueViolation(messages, x)
       THEN UNCHANGED messages
       ELSE messages' = insert_message(messages,
               [run |-> 0, idx |-> 0, direction |-> "outbound",
                external_msg_id |-> x, status |-> "sent"])
    /\ UNCHANGED <<sideVars, config, processed, published, reqVars, workerVars,
                   updateCalls, handled>>

\* _log_statuses_and_persist: UPDATE messages SET status=? WHERE
\* external_msg_id=?
StoreStatus(x, s) ==
    /\ messages' = update_message_status_by_external_id(messages, x, s)
    /\ UNCHANGED <<sideVars, config, processed, published, reqVars, workerVars,
                   updateCalls, handled>>

\* the statements the application runs on the table, in any order
NextStore ==
    \/ StoreInbound
    \/ \E x \in StoreIds \cup {None} : StoreOutbound(x)
    \/ \E x \in StoreIds, s \in StatusVals : StoreStatus(x, s)

SpecStore == Init /\ [][NextStore]_vars

\* ------------------------------------------------------------------ C30
\* C30: no two rows of the message table carry the same non-null
\* external_msg_id, whatever inbound inserts, outbound inserts (repeated
\* ids among them) and status updates have run.
C30_ExternalIdUnique ==
    \A i, j \in DOMAIN messages :
        (i # j /\ messages[i].external_msg_id # None)
        => messages[i].external_msg_id # messages[j].external_msg_id

\* a table with two rows of different ids, one of them updated by a status,
\* and two rows without an id
C30_Witness ==
    /\ Len(messages) = 4
    /\ \E i, j \in DOMAIN messages :
          /\ messages[i].external_msg_id = "wamid.X"
          /\ messages[i].status = "read"
          /\ messages[j].external_msg_id = "wamid.Y"
    /\ \E i, j \in DOMAIN messages :
          /\ i # j
          /\ messages[i].external_msg_id = None
          /\ messages[j].external_msg_id = None
          /\ messages[i].direction = "inbound"

\* ------------------------------------------------------------------ C32
\* the texts respond() answers before it looks at the state: greetings,
\* the opening-hours question, "menu" and "template hello"
AnsweredFirst ==
    {"oi", "olá", "ola", "bom dia", "boa tarde", "boa noite",
     "horario", "horário", "menu", "template hello"}

ChoiceTarget(choice) ==
    CASE choice = "1" -> "awaiting_name"
      [] choice = "2" -> "awaiting_support_desc"
      [] choice = "3" -> "escalated"

\* the answers respond() gives to a menu choice
ChoiceAnswers == {<<"ask_name">>, <<"ask_support_desc">>, <<"handoff">>}

\* C34: an inbound "1", "2" or "3" for a session in awaiting_menu_selection
\* records menu_selected in its context and moves it to awaiting_name, to
\* the support-description state or to escalated (with handoff_requested
\* true); when the session is in any other state the text is not answered
\* as a menu choice, and no session has a choice recorded or makes one of
\* these moves.
C34_ChoiceOnlyWhenAwaited ==
    [][(nIn' # nIn /\ lastEv'.type = "text"
            /\ lower(strip(lastEv'.text)) \in {"1", "2", "3"})
       => LET k      == <<lastEv'.pnid, lastEv'.from>>
              choice == lower(strip(lastEv'.text))
          IN  k \in DOMAIN sessions
              => IF sessions[k].state = "awaiting_menu_selection"
                 THEN /\ k \in DOMAIN sessions'
                      /\ CtxGet(sessions'[k].context, "menu_selected") = choice
                      /\ sessions'[k].state = ChoiceTarget(choice)
                      /\ choice = "3"
                           => CtxGet(sessions'[k].context, "handoff_requested") = TRUE
                 ELSE /\ replies' \notin ChoiceAnswers
                      /\ \A j \in DOMAIN sessions \cap DOMAIN sessions' :
                            /\ CtxGet(sessions'[j].context, "menu_selected")
                                 = CtxGet(sessions[j].context, "menu_selected")
                            /\ sessions'[j].state # sessions[j].state
                                 => sessions'[j].state
                                      \notin {"awaiting_name", "awaiting_support_desc",
                                               "escalated"}]_vars

\* ------------------------------------------------------------------ C39
\* C39: handling an inbound event received for tenant T from address A
\* changes no session but the one keyed (T, A): every other session that
\* stays in the map stays as it was.
C39_OnlyOwnSession ==
    [][nIn' # nIn
       => \A j \in (DOMAIN sessions \cap DOMAIN sessions')
                        \ {<<lastEv'.pnid, lastEv'.from>>} :
             sessions'[j] = sessions[j]]_vars

\* ------------------------------------------------------------------ C40
\* C40: an inbound text whose sender's session is past its expires_at is
\* handled as if the sender had no session: the answers, and the state and
\* context the sender's session is left with, are those of a first message.
C40_ExpiredNeverUsed ==
    [][(nIn' # nIn /\ lastEv'.type = "text")
       => LET k     == <<lastEv'.pnid, lastEv'.from>>
              fresh == session_steps(Pop(sessions, k), lastEv', clock, created)
          IN  (k \in DOMAIN sessions /\ Expired(sessions[k], clock))
              => /\ replies' = fresh.actions
                 /\ k \in DOMAIN sessions'
                      => /\ sessions'[k].state = fresh.sessions[k].state
                         /\ sessions'[k].context = fresh.sessions[k].context]_vars

\* ------------------------------------------------------------------ C35
\* C35: every outbound realtime event of a dispatch run belongs to a row
\* that is in the message table when the event is published, with the same
\* external id; an action whose insert was refused was sent, has no event,
\* and the run goes on to the actions after it.
C35_PublishOnlyAfterInsert ==
    \A w \in Reqs :
        /\ \A e \in DOMAIN published :
              (e.type = "message" /\ e.run = w)
              => \E j \in RowsOf(w, e.idx) :
                    messages[j].external_msg_id = e.external_msg_id
        /\ \A i \in 1..Len(hist[w]) :
              hist[w][i].result = "rejected"
              => /\ hist[w][i].sends = 1
                 /\ MessagePublishes(w, i - 1) = 0
        /\ wpc[w] = "done" => Len(hist[w]) = nActs[w]

\* a finished run whose first action was sent and refused by the table (its
\* id was stored by the other run) and whose second action was stored and
\* published
C35_Witness ==
    \E w \in Reqs :
        /\ wpc[w] = "done"
        /\ Len(hist[w]) = 2
        /\ hist[w][1].result = "rejected"
        /\ hist[w][2].result = "published"
        /\ MessagePublishes(w, 0) = 0
        /\ MessagePublishes(w, 1) = 1
        /\ \E v \in Reqs \ {w} : \E j \in RowsOf(v, 0) :
              messages[j].external_msg_id \in ExtIds

\* ------------------------------------------------------------------ C36
\* C36: the first action of a run that is actually sent, when it has no
\* delay of its own, is sent without a wait, also when actions before it
\* in the list were skipped for lacking a recipient.
C36_FirstSendNeverWaitsDefault ==
    \A w \in Reqs :
        ( /\ wpc[w] = "send"
          /\ cur[w].dkind # "int"
          /\ \A i \in 1..Len(hist[w]) : hist[w][i].result = "skipped" )
        => (slept[w] = 0 /\ remaining[w] = 0)

\* ------------------------------------------------------------------ C37
\* C37: when a status webhook for external id X has been gone through (X is
\* in the dedupe table) and the row of the message sent with id X is in the
\* message table, the row carries a status of a webhook: the status is not
\* lost when the webhook is handled before the row is inserted.
C37_StatusNotLost ==
    \A x \in ExtIds :
        (x \in processed /\ RowsWithId(x) # {})
        => \A j \in RowsWithId(x) : messages[j].status \in StatusVals

\* ------------------------------------------------------------------ C38
\* the place of the event e in the items of a subscriber
PlaceOf(items, e) == CHOOSE i \in DOMAIN items : items[i] = Data(e)

\* C38: two subscribers that both hold two events published by different
\* threads (handed over or waiting in the queue) hold them in the same
\* relative order.
C38_SameOrderEverywhere ==
    \A s, t \in Subs :
        \A e, f \in Payloads(Passed(s)) \cap Payloads(Passed(t)) :
            e.by # f.by
            => ( PlaceOf(Passed(s), e) < PlaceOf(Passed(s), f)
                 <=> PlaceOf(Passed(t), e) < PlaceOf(Passed(t), f) )

\* ------------------------------------- receive(), step 2.1: inbound rows

\* metadata.phone_number_id of the first change of the body, or none
BodyPnids == Pnids \cup {None}

\* pnid = _get_phone_number_id_from_payload(body) or "unknown"
TenantOf(pnid) == IF pnid = None THEN "unknown" ELSE pnid

\* the bodies of the text messages of a webhook
InTexts == {"oi", "menu"}

\* what normalize_incoming returns for one entry of messages[]: the text of
\* an event that is not a text event is not exported
InEvents ==
    [from : Phones, type : {"text"}, text : InTexts]
        \cup [from : Phones, type : EventTypes \ {"text"}, text : {""}]

\* the event lists of a webhook
EventLists == UNION {[1..n -> InEvents] : n \in 0..MaxEvents}

\* the row step 2.1 inserts for a text event
InboundRow(tenant, e) ==
    [run |-> 0, idx |-> 0, direction |-> "inbound", external_msg_id |-> None,
     status |-> None, tenant_id |-> tenant, phone |-> e.from, text |-> e.text]

\* the publish call step 2.1 makes for a text event
InboundPublish(tenant, e) ==
    [channel |-> channel_key(tenant, e.from),
     payload |-> [type |-> "message", direction |-> "inbound",
                  msg_type |-> "text", text |-> e.text]]

\* a loop that stores and publishes every event, whatever its type
persisted_any(e) == TRUE

\* if e.get("type") == "text"
persisted(e) == e.type = "text"

\* for e in events: the rows and the publish calls after the loop
RECURSIVE inbound_loop(_, _, _, _)
inbound_loop(events, tenant, rows, pubs) ==
    IF events = <<>> THEN [rows |-> rows, pubs |-> pubs]
    ELSE LET e == Head(events)
         IN  IF persisted(e)
             THEN inbound_loop(Tail(events), tenant,
                               insert_message(rows, InboundRow(tenant, e)),
                               Append(pubs, InboundPublish(tenant, e)))
             ELSE inbound_loop(Tail(events), tenant, rows, pubs)

\* the events with the tenant of their webhook
Tagged(events, tenant) ==
    [i \in DOMAIN events |->
        [tenant |-> tenant, from |-> events[i].from, type |-> events[i].type,
         text |-> events[i].text]]

\* POST / with a body of messages, in an application without a session
\* manager and with an automation that answers nothing: steps 1 to 2.1
ReceiveEvents(pnid, events) ==
    /\ nBodies < MaxBodies
    /\ LET tenant == TenantOf(pnid)
           r == inbound_loop(events, tenant, messages, inPub)
       IN  /\ messages' = r.rows
           /\ inPub' = r.pubs
           /\ inEvents' = inEvents \o Tagged(events, tenant)
    /\ nBodies' = nBodies + 1
    /\ UNCHANGED <<rtVars, smVars, flowVars, sendVars, config, processed, published,
                   reqVars, workerVars, updateCalls, handled>>

NextInbox == \E pnid \in BodyPnids, events \in EventLists : ReceiveEvents(pnid, events)

SpecInbox == Init /\ [][NextInbox]_vars

\* the text events handled so far, in order
TextEventsSoFar == SelectSeq(inEvents, LAMBDA e : e.type = "text")

\* the inbound rows of the table, in insertion order
InboundRows == SelectSeq(messages, LAMBDA m : m.direction = "inbound")

\* ------------------------------------------------------------------ C31
\* C31: the inbound rows of the table and the inbound realtime events are,
\* one for one and in the same order, the text events of the webhooks
\* handled: the k-th row and the k-th event carry the tenant, the sender and
\* the text of the k-th text event, the event goes to channel (tenant,
\* sender), and events of other types add no row.
C31_OneRowOnePublishPerText ==
    /\ Len(InboundRows) = Len(TextEventsSoFar)
    /\ Len(inPub) = Len(TextEventsSoFar)
    /\ \A k \in 1..Len(TextEventsSoFar) :
          LET e == TextEventsSoFar[k]
          IN  /\ InboundRows[k].tenant_id = e.tenant
              /\ InboundRows[k].phone = e.from
              /\ InboundRows[k].text = e.text
              /\ InboundRows[k].external_msg_id = None
              /\ inPub[k].channel = e.tenant \o "|" \o e.from
              /\ inPub[k].payload.direction = "inbound"
              /\ inPub[k].payload.text = e.text

\* two webhooks were handled, with text events of two senders and an event
\* of another type between them
C31_Witness ==
    /\ nBodies = 2
    /\ Len(inEvents) >= 3
    /\ \E i, j, k \in DOMAIN inEvents :
          /\ i < j /\ j < k
          /\ inEvents[i].type = "text"
          /\ inEvents[j].type # "text"
          /\ inEvents[k].type = "text"
          /\ inEvents[i].from # inEvents[k].from
          /\ inEvents[i].text # inEvents[k].text
    /\ Len(inPub) = Len(inEvents) - 1

\* ------------------------------------------- outbound.py: POST /send

\* os.getenv("INTERNAL_SEND_TOKEN"): unset, set to nothing, set to a token
Secrets == {None, "", "s3"}

\* request.headers.get("X-Internal-Token")
Tokens == {None, "s3", "bad"}

\* the values of "to", "text" and "template" in a JSON object
ToVals       == {None, "", "5561"}
TextVals     == {None, "", "oi"}
TemplateVals == {None, "hello_world"}

\* the requests: a JSON object with its three fields, or a body of another
\* kind, which has none
Requests ==
    [token : Tokens, kind : {"object"}, to : ToVals, text : TextVals,
     template : TemplateVals]
        \cup [token : Tokens, kind : BodyKinds \ {"object"}, to : {None},
              text : {None}, template : {None}]

\* what send_text / send_template does: it returns, raises
\* requests.HTTPError, or raises something else (RuntimeError of wa_post)
Outcomes == {"returns", "http_error", "error"}

\* a handler that lets every token pass
token_refused_never(sec, token) == FALSE

\* if secret and auth != secret
token_refused(sec, token) == Truthy(sec) /\ token # sec

\* send(): the status code of the response and the gateway calls made
send(sec, q, outcome) ==
    IF token_refused(sec, q.token)
    THEN [code |-> 401, calls |-> <<>>]
    ELSE IF ~IsDict(q.kind)
    THEN [code |-> 500, calls |-> <<>>]       \* data.get raises AttributeError
    ELSE IF ~Truthy(q.to)
    THEN [code |-> 400, calls |-> <<>>]
    ELSE IF Truthy(q.text) /\ Truthy(q.template)
    THEN [code |-> 400, calls |-> <<>>]
    ELSE IF ~Truthy(q.text) /\ ~Truthy(q.template)
    THEN [code |-> 400, calls |-> <<>>]
    ELSE [code  |-> CASE outcome = "returns"    -> 200
                      [] outcome = "http_error" -> 502
                      [] OTHER                  -> 500,
          calls |-> IF Truthy(q.text)
                    THEN <<[fn |-> "send_text", to |-> q.to, content |-> q.text]>>
                    ELSE <<[fn |-> "send_template", to |-> q.to,
                            content |-> q.template]>>]

\* load_settings, before the first request
LoadSettings(sec) ==
    /\ nReq = 0
    /\ secret = None
    /\ secret' = sec
    /\ UNCHANGED <<coreVars, rtVars, smVars, flowVars, inboxVars, nReq, lastReq,
                   lastResp, gateway>>

\* POST /send
Send(q, outcome) ==
    /\ nReq < MaxSends
    /\ LET r == send(secret, q, outcome)
       IN  /\ lastResp' = r.code
           /\ gateway' = gateway \o r.calls
    /\ lastReq' = q
    /\ nReq' = nReq + 1
    /\ UNCHANGED <<coreVars, rtVars, smVars, flowVars, inboxVars, secret>>

NextSend ==
    \/ \E sec \in Secrets \ {None} : LoadSettings(sec)
    \/ \E q \in Requests, outcome \in Outcomes : Send(q, outcome)

SpecSend == Init /\ [][NextSend]_vars

====
